---- MODULE Spec2Model ----
(***************************************************************************)
(* A model of the multi-reactor HTTP server: the event loop (EventLoop),   *)
(* its cross-thread task queue and eventfd wakeup, the epoll wrapper with  *)
(* its descriptor registry, and the kernel's edge-triggered readiness      *)
(* list.  Threads are identified with the reactor they own: reactor 0 is   *)
(* the base loop on the main thread, reactors 1..NumWorkers are the pool's *)
(* worker loops.                                                           *)
(***************************************************************************)
EXTENDS Integers, Sequences, FiniteSets, TLC

\* ------------------------------------------------------------------ bounds
NumWorkers == 2          \* worker reactors in the pool (the -t option)
MaxTasks == 2            \* client tasks injected through queueInLoop
MaxUserEvents == 1       \* readiness edges on the client channel
MaxConns == 5            \* connections the peers open against the acceptor
MaxTraffic == 1          \* of them, the connections whose peer sends requests
MaxEnvEvents == 3        \* segments, closes, resets, drains and clock advances

\* ------------------------------------------------------------- identifiers
BaseLoop == 0
Workers == 1..NumWorkers
Reactors == {BaseLoop} \cup Workers
Threads == Reactors      \* one thread per reactor, named after it

\* Connections are numbered in the order in which the peers open them; a
\* connection's Channel and HttpData are named after it.
Conns == 1..MaxConns
NoConn == 0

\* Channel identifiers: the wakeup channel of reactor r is -(r+1); a client
\* channel registered by code that uses the loop is -(NumWorkers+2); the
\* acceptor's channel is 0; the channel of connection c is c.
WakeCh(r) == 0 - (r + 1)
UserCh == 0 - (NumWorkers + 2)
ListenCh == 0
WakeChans == {WakeCh(r) : r \in Reactors}
Channels == WakeChans \cup {UserCh, ListenCh} \cup Conns

\* Descriptors: an eventfd and the listening socket are named after their
\* channel (they are never reused); accepted sockets get the lowest free
\* number of ConnFds, or a number at the ceiling.
MAXFDS == 100000
ListenFd == ListenCh
ConnFds == 1..MaxConns
Fds == WakeChans \cup {UserCh, ListenFd} \cup ConnFds
NoFd == 0 - (NumWorkers + 3)

NoChan == 0 - (NumWorkers + 3)
NoThread == 0 - 1

\* epoll event bits, as sets
EPOLLIN == "IN"
EPOLLOUT == "OUT"
EPOLLET == "ET"
EPOLLONESHOT == "ONESHOT"
EPOLLPRI == "PRI"
EPOLLRDHUP == "RDHUP"
EPOLLHUP == "HUP"
EPOLLERR == "ERR"

\* ---------------------------------------------------------------- HTTP text
\* Byte strings are sequences of one-character strings; positions are counted
\* from 0 as in std::string.
CR == "\r"
LF == "\n"
NPOS == 0 - 1            \* std::string::npos; arithmetic on it is spelt out

\* A byte read from before the start of a buffer: its value is not determined
\* by the program.
UnknownByte == "?"

\* A sequence point: F applied to the value of a, which is computed once, as
\* the result of a statement is before the next one uses it.
Then(F(_), a) == CHOOSE y \in {F(x) : x \in {a}} : TRUE

\* s.find(pat, from)
Find(s, pat, from) ==
  IF from = NPOS THEN NPOS
  ELSE LET hits == {i \in from..(Len(s) - Len(pat)) :
                      \A j \in 1..Len(pat) : s[i + j] = pat[j]}
       IN IF hits = {} THEN NPOS
          ELSE CHOOSE i \in hits : \A k \in hits : i <= k

\* s.substr(pos, n) for pos <= s.size(); n = NPOS takes the rest
SubStr(s, pos, n) ==
  LET last == IF n = NPOS \/ pos + n > Len(s) THEN Len(s) ELSE pos + n
  IN SubSeq(s, pos + 1, last)

\* std::string(str.begin() + b, str.begin() + e); b = -1 reads the byte before
\* the buffer.
Range(s, b, e) ==
  IF e <= b THEN <<>>
  ELSE IF b < 0 THEN <<UnknownByte>> \o SubSeq(s, 1, e)
  ELSE SubSeq(s, b + 1, e)

S_GET == <<"G", "E", "T">>
S_POST == <<"P", "O", "S", "T">>
S_HEAD == <<"H", "E", "A", "D">>
S_hello == <<"h", "e", "l", "l", "o">>
S_index == <<"i", "n", "d", "e", "x", ".", "h", "t", "m", "l">>
S_favicon == <<"f", "a", "v", "i", "c", "o", "n", ".", "i", "c", "o">>
S_V10 == <<"1", ".", "0">>
S_V11 == <<"1", ".", "1">>
S_Connection == <<"C", "o", "n", "n", "e", "c", "t", "i", "o", "n">>
S_KeepAlive == <<"K", "e", "e", "p", "-", "A", "l", "i", "v", "e">>
S_keepalive == <<"k", "e", "e", "p", "-", "a", "l", "i", "v", "e">>
S_ContentLength ==
  <<"C", "o", "n", "t", "e", "n", "t", "-", "l", "e", "n", "g", "t", "h">>

\* HttpData::parseURI on the input buffer, statement by statement; u carries
\* the function's local variables.  The request line and what is left of the
\* buffer:
UriLine(str, pos) ==
  [line |-> IF pos = NPOS THEN str ELSE SubStr(str, 0, pos),
   \* str.size() > pos + 1, with npos + 1 wrapping to 0
   left |-> IF pos = NPOS THEN str
            ELSE IF Len(str) > pos + 1 THEN SubStr(str, pos + 1, NPOS)
            ELSE <<>>]

\* The method: GET is looked for first, then POST, then HEAD.
UriMethod(u) ==
  LET posGet == Find(u.line, S_GET, 0)
      posPost == Find(u.line, S_POST, 0)
      posHead == Find(u.line, S_HEAD, 0)
  IN u @@ [method |-> IF posGet >= 0 THEN "GET"
                      ELSE IF posPost >= 0 THEN "POST"
                      ELSE IF posHead >= 0 THEN "HEAD"
                      ELSE "none",
           mpos |-> IF posGet >= 0 THEN posGet
                    ELSE IF posPost >= 0 THEN posPost ELSE posHead]

UriSlash(u) == u @@ [slash |-> Find(u.line, <<"/">>, u.mpos)]
UriSpace(u) == u @@ [sp |-> Find(u.line, <<" ">>, u.slash)]

\* The text between the slash and the space.
UriRaw(u) ==
  u @@ [\* _pos - pos > 1 in size_t: npos - pos is huge, npos - npos is 0
        longer |-> IF u.slash = NPOS THEN FALSE
                   ELSE IF u.sp = NPOS THEN TRUE ELSE u.sp - u.slash > 1,
        raw |-> IF u.sp = NPOS THEN SubStr(u.line, u.slash + 1, NPOS)
                ELSE SubStr(u.line, u.slash + 1, u.sp - u.slash - 1)]

\* The file name, without its query; index.html when the target is empty.
UriFile(u) ==
  LET q == Find(u.raw, <<"?">>, 0)
  IN u @@ [fileName |-> IF ~u.longer THEN S_index
                        ELSE IF q = NPOS THEN u.raw ELSE SubStr(u.raw, 0, q)]

UriVersionSlash(u) == u @@ [vslash |-> Find(u.line, <<"/">>, u.sp)]

\* The outcome, the buffer left, and the fields parseURI assigns ("same"
\* where the path taken assigns nothing).
UriResult(u) ==
  LET \* request_line.size() - pos <= 3 in size_t: size - npos is size + 1
      short == IF u.vslash = NPOS THEN Len(u.line) + 1 <= 3
               ELSE Len(u.line) - u.vslash <= 3
      ver == SubStr(u.line, u.vslash + 1, 3)
  IN IF u.method = "none"
       THEN [res |-> "error", buf |-> u.left, method |-> "same",
             fileName |-> <<"same">>, version |-> "same"]
     ELSE IF short \/ ver \notin {S_V10, S_V11}
       THEN [res |-> "error", buf |-> u.left, method |-> u.method,
             fileName |-> u.fileName, version |-> "same"]
     ELSE [res |-> "success", buf |-> u.left, method |-> u.method,
           fileName |-> u.fileName,
           version |-> IF ver = S_V10 THEN "HTTP_10" ELSE "HTTP_11"]

\* HttpData::parseURI
ParseURI(str) ==
  Then(UriResult,
    Then(UriVersionSlash,
      Then(UriFile,
        Then(UriRaw,
          Then(UriSpace,
            Then(UriSlash,
              Then(UriMethod,
                Then(LAMBDA pos : UriLine(str, pos), Find(str, <<CR>>, 0)))))))))

\* headers_[key] = value
SetHeader(hdr, key, value) == (key :> value) @@ hdr

\* One step of the for loop of HttpData::parseHeaders on byte i; p carries
\* hState_, the header map and the function's local variables.
HeaderByte(str, p) ==
  LET i == p.i
      c == str[i + 1]
      err == [p EXCEPT !.res = "error"]
  IN CASE p.hs = "H_START" ->
            IF c = LF \/ c = CR THEN p
            ELSE [p EXCEPT !.hs = "H_KEY", !.ks = i, !.lb = i]
       [] p.hs = "H_KEY" ->
            IF c = ":"
              THEN IF i - p.ks <= 0 THEN [err EXCEPT !.ke = i]
                   ELSE [p EXCEPT !.ke = i, !.hs = "H_COLON"]
            ELSE IF c = LF \/ c = CR THEN err
            ELSE p
       [] p.hs = "H_COLON" ->
            IF c = " " THEN [p EXCEPT !.hs = "H_SPACES_AFTER_COLON"] ELSE err
       [] p.hs = "H_SPACES_AFTER_COLON" ->
            [p EXCEPT !.hs = "H_VALUE", !.vs = i]
       [] p.hs = "H_VALUE" ->
            IF c = CR
              THEN IF i - p.vs <= 0
                     THEN [err EXCEPT !.hs = "H_CR", !.ve = i]
                     ELSE [p EXCEPT !.hs = "H_CR", !.ve = i]
            ELSE IF i - p.vs > 255 THEN err
            ELSE p
       [] p.hs = "H_CR" ->
            IF c = LF
              THEN [p EXCEPT !.hs = "H_LF", !.lb = i,
                      !.hdr = SetHeader(@, Range(str, p.ks, p.ke),
                                           Range(str, p.vs, p.ve))]
              ELSE err
       [] p.hs = "H_LF" ->
            IF c = CR THEN [p EXCEPT !.hs = "H_END_CR"]
            ELSE [p EXCEPT !.ks = i, !.hs = "H_KEY"]
       [] p.hs = "H_END_CR" ->
            IF c = LF THEN [p EXCEPT !.hs = "H_END_LF"] ELSE err
       [] OTHER ->      \* H_END_LF
            [p EXCEPT !.nf = FALSE, !.ks = i, !.lb = i]

\* The for loop: ++i after a body that did not return; one iteration, if the
\* loop condition holds; n iterations (in two halves, to bound the nesting);
\* the whole loop.
HeaderNext(str, q) ==
  IF q.res = "error" THEN q ELSE [q EXCEPT !.i = @ + 1]
HeaderIter(str, p) ==
  IF p.i < Len(str) /\ p.nf /\ p.res # "error"
    THEN Then(LAMBDA q : HeaderNext(str, q), HeaderByte(str, p))
    ELSE p
RECURSIVE HeaderRun(_, _, _)
HeaderRun(str, p, n) ==
  IF n <= 0 THEN p
  ELSE IF n = 1 THEN HeaderIter(str, p)
  ELSE Then(LAMBDA q : HeaderRun(str, q, n - (n \div 2)),
            HeaderRun(str, p, n \div 2))
HeaderLoop(str, p) == HeaderRun(str, p, Len(str) - p.i)

\* HttpData::parseHeaders: the outcome, the buffer left, hState_ and the
\* header map after it.
HeaderResult(str, p) ==
  IF p.res = "error"
    THEN [res |-> "error", buf |-> str, hState |-> p.hs, headers |-> p.hdr]
  ELSE IF p.hs = "H_END_LF"
    THEN [res |-> "success", buf |-> SubStr(str, p.i, NPOS),
          hState |-> p.hs, headers |-> p.hdr]
  ELSE [res |-> "again", buf |-> SubStr(str, p.lb, NPOS),
        hState |-> p.hs, headers |-> p.hdr]
ParseHeaders(str, hState, headers) ==
  Then(LAMBDA p : HeaderResult(str, p),
       HeaderLoop(str, [i |-> 0, hs |-> hState, hdr |-> headers,
                        ks |-> 0 - 1, ke |-> 0 - 1, vs |-> 0 - 1,
                        ve |-> 0 - 1, lb |-> 0, nf |-> TRUE, res |-> "run"]))

\* std::stoi on a header value: the number of its leading digits, or "throw"
\* (std::invalid_argument) when it does not start with a digit.
Digits == <<"0", "1", "2", "3", "4", "5", "6", "7", "8", "9">>
DigitVal(c) == (CHOOSE d \in 1..10 : Digits[d] = c) - 1
IsDigit(c) == \E d \in 1..10 : Digits[d] = c
RECURSIVE StoiFrom(_, _, _)
StoiFrom(v, i, acc) ==
  IF i <= Len(v) /\ IsDigit(v[i]) THEN StoiFrom(v, i + 1, acc * 10 + DigitVal(v[i]))
  ELSE acc
Stoi(v) ==
  LET ws == {i \in 1..Len(v) : \A j \in 1..i : v[j] = " "}
      b == IF ws = {} THEN 1 ELSE 1 + CHOOSE i \in ws : \A j \in ws : j <= i
      neg == b <= Len(v) /\ v[b] = "-"
      d == IF b <= Len(v) /\ v[b] \in {"-", "+"} THEN b + 1 ELSE b
  IN IF d <= Len(v) /\ IsDigit(v[d])
       THEN [ok |-> TRUE, val |-> IF neg THEN 0 - StoiFrom(v, d, 0) ELSE StoiFrom(v, d, 0)]
       ELSE [ok |-> FALSE, val |-> 0]

VARIABLES
  pc,                      \* [Reactors -> position of the thread in EventLoop::loop]
  iter,                    \* [Reactors -> history: poll() returns since the first append]
  ret,                     \* [Reactors -> channels returned by poll, not yet dispatched]
  pendingFunctors,         \* [Reactors -> Seq(task)]  (guarded by mutex_)
  functors,                \* [Reactors -> Seq(task)]  the local vector of doPendingFunctors
  callingPendingFunctors,  \* [Reactors -> BOOLEAN]
  quit,                    \* [Reactors -> BOOLEAN]
  efdCount,                \* [Reactors -> counter of the wakeup eventfd]
  kreg,                    \* [Reactors -> [Fds -> kernel registration of the epoll instance]]
  krdy,                    \* [Reactors -> Seq(fd)] the epoll ready list
  fd2chan,                 \* [Reactors -> [Fds -> channel or NoChan]]
  chEvents,                \* [Channels -> events_]
  chLast,                  \* [Channels -> lastEvents_]
  chRevents,               \* [Channels -> revents_]
  midQueue,                \* [Threads -> reactor whose queue the thread appended to, wakeup pending]
  usrCount,                \* unread notifications on the client channel's descriptor
  usrEdges,                \* readiness edges produced on the client channel so far
  nextTask,                \* next unused client task id
  appendLog,               \* [Reactors -> Seq(record)] history: emplace_back order
  runLog,                  \* [Reactors -> Seq(record)] history: execution order
  popLog,                  \* [Reactors -> Seq(expiry)] history: the nodes popped, not cancelled
  callLog,                 \* [Conns -> Seq(handler)] history: the calls of the last dispatch
  http,                    \* [Conns -> the HttpData object of the connection]
  sock,                    \* [Conns -> the socket: kernel buffers and the peer]
  fd2http,                 \* [Reactors -> [Fds -> connection or NoConn]]
  timerQ,                  \* [Reactors -> set of TimerNode] timerNodeQueue
  timerSeq,                \* TimerNodes created so far
  acceptQ,                 \* connections completed by the kernel, not yet accepted
  nconn,                   \* connections opened by peers so far
  held,                    \* the connection req_info of handNewConn points to
  next_,                   \* EventLoopThreadPool::next_
  assignLog,               \* history: the acceptor's decisions, in accept order
  loop_,                   \* [Workers -> EventLoopThread::loop_, NoThread for NULL]
  loops_,                  \* EventLoopThreadPool::loops_
  touchLog,                \* history: which thread operated on whose poller and timers
  now,                     \* the clock, in ms within the 10000 s cycle
  envCount                 \* peer events and clock advances so far

loopVars == <<pc, iter, ret, pendingFunctors, functors, callingPendingFunctors,
              quit, efdCount, kreg, krdy, fd2chan, chEvents, chLast, chRevents,
              midQueue>>
userVars == <<usrCount, usrEdges, nextTask>>
histVars == <<appendLog, runLog, popLog, callLog>>
connVars == <<http, sock, fd2http, timerQ, timerSeq>>
acceptVars == <<acceptQ, nconn, held, next_, assignLog, loop_, loops_>>
timeVars == <<now, envCount>>
serverVars == <<connVars, acceptVars, timeVars, touchLog>>
vars == <<loopVars, userVars, histVars, serverVars>>

\* ------------------------------------------------------- objects and sockets
\* send-buffer space that never runs out
Unlimited == 0 - 1

\* A connection's socket.  script: the bytes the peer has still to send;
\* sent, segs: the bytes it has sent and in how many segments; rcv: bytes
\* received and not yet read;
\* fin/rst: the peer has closed its write side / reset the connection;
\* snd: the response units the send buffer still takes; nospace: a write
\* hit the full send buffer; wire: the units written to the peer so far.
NoSock ==
  [st |-> "none", fd |-> NoFd, script |-> <<>>, sent |-> <<>>, segs |-> 0,
   rcv |-> <<>>,
   fin |-> FALSE, rst |-> FALSE, snd |-> Unlimited, nospace |-> FALSE,
   wire |-> <<>>]

\* HttpData as its constructor leaves it, bound to `loop`; made/live record
\* that the object was constructed and that it has not been destroyed, threw
\* that one of its handlers let an exception escape.
HttpData(loop, made) ==
  [made |-> made, live |-> made, loop |-> loop, error |-> FALSE,
   cstate |-> "H_CONNECTED", method |-> "GET", version |-> "HTTP_11",
   state |-> "STATE_PARSE_URI", hState |-> "H_START", keepAlive |-> FALSE,
   fileName |-> <<>>, headers |-> <<>>, inBuffer |-> <<>>, outBuffer |-> <<>>,
   timer |-> 0, threw |-> FALSE, moves |-> {}]

\* An assignment `state_ = to`. The history field moves keeps every change of
\* state_ the object has made, with the method, the length of inBuffer_ and
\* the Content-length text at the time of the change.
Move(h, to) ==
  [h EXCEPT !.state = to,
            !.moves = @ \cup
              {[from |-> h.state, to |-> to, method |-> h.method,
                len |-> Len(h.inBuffer),
                cl |-> IF S_ContentLength \in DOMAIN h.headers
                         THEN h.headers[S_ContentLength] ELSE <<>>]}]

\* The descriptor of a channel, and the connection that owns an open
\* descriptor number.
ChFd(ch) == IF ch \in Conns THEN sock[ch].fd ELSE ch
FdConn(fd) ==
  IF \E c \in Conns : sock[c].st = "open" /\ sock[c].fd = fd
    THEN CHOOSE c \in Conns : sock[c].st = "open" /\ sock[c].fd = fd
    ELSE NoConn

\* ------------------------------------------------------------------ kernel
Unregistered == [reg |-> FALSE, ev |-> {}, off |-> FALSE]
Registered(mask) == [reg |-> TRUE, ev |-> mask, off |-> FALSE]

\* The readiness of a connected socket.
SockMask(s) ==
  (IF s.rcv # <<>> \/ s.fin \/ s.rst THEN {EPOLLIN} ELSE {})
    \cup (IF s.fin \/ s.rst THEN {EPOLLRDHUP} ELSE {})
    \cup (IF s.rst THEN {EPOLLERR, EPOLLHUP} ELSE {})
    \cup (IF s.snd # 0 THEN {EPOLLOUT} ELSE {})

\* The readiness the kernel reports for a descriptor right now, the
\* connections' sockets being those of the function sk.
PollMaskOf(sk, fd) ==
  IF fd \in WakeChans
    THEN LET r == CHOOSE x \in Reactors : WakeCh(x) = fd
         IN IF efdCount[r] > 0 THEN {EPOLLIN} ELSE {}
  ELSE IF fd = UserCh THEN (IF usrCount > 0 THEN {EPOLLIN} ELSE {})
  ELSE IF fd = ListenFd THEN (IF acceptQ # <<>> THEN {EPOLLIN} ELSE {})
  ELSE IF \E c \in Conns : sk[c].st = "open" /\ sk[c].fd = fd
    THEN SockMask(sk[CHOOSE c \in Conns : sk[c].st = "open" /\ sk[c].fd = fd])
  ELSE {}
PollMask(fd) == PollMaskOf(sock, fd)

\* What epoll reports of a readiness mask under a registration: the requested
\* bits, and always error and hang-up.
Reported(reg, mask) == mask \cap (reg.ev \cup {EPOLLERR, EPOLLHUP})

\* A readiness edge with key bits `key` on descriptor fd: the kernel links the
\* registration into the ready list unless it is disabled or not interested.
EdgeOn(rdy, reg, r, fd, key) ==
  IF reg[r][fd].reg /\ ~reg[r][fd].off
     /\ Reported(reg[r][fd], key) # {}
     /\ \A i \in 1..Len(rdy[r]) : rdy[r][i] # fd
    THEN [rdy EXCEPT ![r] = Append(@, fd)]
    ELSE rdy

\* EPOLL_CTL_DEL, and close() of a registered descriptor: the registration
\* leaves the interest list and the ready list.
KernelDel(rdy, r, fd) ==
  [rdy EXCEPT ![r] = SelectSeq(@, LAMBDA x : x # fd)]

\* ------------------------------------------------------------ HttpData: I/O
\* The handlers of one connection work on a context k: its HttpData h, its
\* socket s and its Channel's events_ ev.

DEFAULT_EVENT == {EPOLLIN, EPOLLET, EPOLLONESHOT}
DEFAULT_EXPIRED_TIME == 2000
DEFAULT_KEEP_ALIVE_TIME == 5 * 60 * 1000

\* Response text, in units: a header line (without its CR LF) or a body.
HelloResponse ==
  <<"HTTP/1.1 200 OK", "Content-type: text/plain", "", "Hello World">>
ErrorBody(num, msg) ==
  "<html><title>error</title><body bgcolor=\"ffffff\">" \o num \o " " \o msg
     \o "<hr><em> LinYa's Web Server</em>\n</body></html>"
ErrorHeader(num, msg) ==
  <<"HTTP/1.1 " \o num \o " " \o msg, "Content-Type: text/html",
    "Connection: Close", "Content-Length: body", "Server: LinYa's Web Server",
    "">>

\* How many of n units one writen call puts on the wire before the send
\* buffer is full.
Accepted(s, n) == IF s.snd = Unlimited \/ n <= s.snd THEN n ELSE s.snd
AfterWrite(s, units) ==
  LET a == Accepted(s, Len(units))
  IN [s EXCEPT !.wire = @ \o SubSeq(units, 1, a),
               !.snd = IF @ = Unlimited THEN @ ELSE @ - a,
               !.nospace = @ \/ a < Len(units)]

\* readn(fd, inBuffer_, zero): everything received is appended; zero reports
\* the end of file; a reset connection makes read fail.
ReadN(k) ==
  IF k.s.rst THEN [k |-> k, n |-> 0 - 1, zero |-> FALSE]
  ELSE [k |-> [k EXCEPT !.h.inBuffer = @ \o k.s.rcv, !.s.rcv = <<>>],
        n |-> Len(k.s.rcv), zero |-> k.s.fin]

\* writen(fd, outBuffer_): the result is negative on a write error; the units
\* written leave the buffer.
WriteFails(k) == k.h.outBuffer # <<>> /\ k.s.rst
WriteN(k) ==
  IF k.h.outBuffer = <<>> \/ k.s.rst THEN k
  ELSE LET a == Accepted(k.s, Len(k.h.outBuffer))
       IN [k EXCEPT !.s = AfterWrite(k.s, k.h.outBuffer),
                    !.h.outBuffer = SubSeq(@, a + 1, Len(@))]

\* HttpData::handleError: header and body go to the descriptor with two
\* writen(fd, buf, n) calls whose results are ignored.
HandleError(k, num, msg) ==
  IF k.s.rst THEN k
  ELSE LET s1 == AfterWrite(k.s, ErrorHeader(num, msg))
       IN [k EXCEPT !.s = AfterWrite(s1, <<ErrorBody(num, msg)>>)]

\* HttpData::handleWrite
HandleWrite(k) ==
  IF ~k.h.error /\ k.h.cstate # "H_DISCONNECTED"
    THEN LET w == WriteN(k)
             e == IF WriteFails(k) THEN [w EXCEPT !.ev = {}, !.h.error = TRUE] ELSE w
         IN IF e.h.outBuffer # <<>> THEN [e EXCEPT !.ev = @ \cup {EPOLLOUT}] ELSE e
    ELSE k

\* HttpData::reset (the timer it detaches is the one timer = 0 forgets)
Reset(h) ==
  [Move(h, "STATE_PARSE_URI") EXCEPT
     !.fileName = <<>>, !.hState = "H_START", !.headers = <<>>, !.timer = 0]

\* MimeType::init: the table, and MimeType::getMime with its default.
MimeTable ==
     (<<".", "h", "t", "m", "l">> :> "text/html")
  @@ (<<".", "a", "v", "i">> :> "video/x-msvideo")
  @@ (<<".", "b", "m", "p">> :> "image/bmp")
  @@ (<<".", "c">> :> "text/plain")
  @@ (<<".", "d", "o", "c">> :> "application/msword")
  @@ (<<".", "g", "i", "f">> :> "image/gif")
  @@ (<<".", "g", "z">> :> "application/x-gzip")
  @@ (<<".", "h", "t", "m">> :> "text/html")
  @@ (<<".", "i", "c", "o">> :> "image/x-icon")
  @@ (<<".", "j", "p", "g">> :> "image/jpeg")
  @@ (<<".", "c", "s", "s">> :> "text/css")
  @@ (<<".", "j", "s">> :> "application/javascript")
  @@ (<<".", "p", "n", "g">> :> "image/png")
  @@ (<<".", "t", "x", "t">> :> "text/plain")
  @@ (<<".", "m", "p", "3">> :> "audio/mp3")
GetMime(suffix) ==
  IF suffix \in DOMAIN MimeTable THEN MimeTable[suffix] ELSE "text/html"

\* The files stat() finds in the working directory.
ServedFiles == {S_index}

\* HttpData::analysisRequest: the context after it and whether it returned
\* ANALYSIS_SUCCESS.
AnalysisRequest(k) ==
  IF k.h.method = "POST" THEN [k |-> k, ok |-> FALSE]
  ELSE
    LET ka == /\ S_Connection \in DOMAIN k.h.headers
              /\ k.h.headers[S_Connection] \in {S_KeepAlive, S_keepalive}
        k1 == IF ka THEN [k EXCEPT !.h.keepAlive = TRUE] ELSE k
        head == <<"HTTP/1.1 200 OK">> \o
                (IF ka THEN <<"Connection: Keep-Alive", "Keep-Alive: timeout=300000">>
                       ELSE <<>>)
        dot == Find(k.h.fileName, <<".">>, 0)
        filetype == IF dot < 0 THEN GetMime(<<"default">>)
                    ELSE GetMime(SubStr(k.h.fileName, dot, NPOS))
        tail == <<"Content-Length: st_size", "Server: LinYa's Web Server", "">>
    IN IF k.h.fileName = S_hello
         THEN [k |-> [k1 EXCEPT !.h.outBuffer = HelloResponse], ok |-> TRUE]
       ELSE IF k.h.fileName = S_favicon
         THEN [k |-> [k1 EXCEPT !.h.outBuffer =
                        @ \o head \o <<"Content-Type: image/png",
                                       "Content-Length: 555",
                                       "Server: LinYa's Web Server", "",
                                       "favicon">>],
               ok |-> TRUE]
       ELSE IF k.h.fileName \notin ServedFiles
         THEN [k |-> HandleError(k1, "404", "Not Found!"), ok |-> FALSE]
       ELSE IF k.h.method = "HEAD"
         THEN [k |-> [k1 EXCEPT !.h.outBuffer =
                        @ \o head \o <<"Content-Type: " \o filetype>> \o tail],
               ok |-> TRUE]
       ELSE [k |-> [k1 EXCEPT !.h.outBuffer =
                      @ \o head \o <<"Content-Type: " \o filetype>> \o tail
                        \o <<"file body">>],
             ok |-> TRUE]

\* HttpData::handleRead, the body of its do-while: the stages it runs through
\* until one breaks out (brk).
ReadStage(k) ==
  LET r == ReadN(k)
  IN IF k.h.cstate = "H_DISCONNECTING"
       THEN [k |-> [r.k EXCEPT !.h.inBuffer = <<>>], brk |-> TRUE]
     ELSE IF r.n < 0
       THEN [k |-> HandleError([r.k EXCEPT !.h.error = TRUE], "400", "Bad Request"),
             brk |-> TRUE]
     ELSE IF r.zero
       THEN [k |-> [r.k EXCEPT !.h.cstate = "H_DISCONNECTING"], brk |-> r.n = 0]
     ELSE [k |-> r.k, brk |-> FALSE]

\* The STATE_PARSE_URI case with the outcome p of parseURI.
AfterURI(k, p) ==
  LET k1 == [k EXCEPT
               !.h.inBuffer = p.buf,
               !.h.method = IF p.method = "same" THEN @ ELSE p.method,
               !.h.fileName = IF p.fileName = <<"same">> THEN @ ELSE p.fileName,
               !.h.version = IF p.version = "same" THEN @ ELSE p.version]
  IN IF p.res = "error"
       THEN [k |-> HandleError([k1 EXCEPT !.h.inBuffer = <<>>, !.h.error = TRUE],
                               "400", "Bad Request"),
             brk |-> TRUE]
       ELSE [k |-> [k1 EXCEPT !.h = Move(@, "STATE_PARSE_HEADERS")], brk |-> FALSE]

UriStage(x) ==
  IF x.brk \/ x.k.h.state # "STATE_PARSE_URI" THEN x
  ELSE Then(LAMBDA p : AfterURI(x.k, p), ParseURI(x.k.h.inBuffer))

\* The STATE_PARSE_HEADERS case with the outcome p of parseHeaders.
\* (AfterHeaders_NoError takes PARSE_HEADER_ERROR for PARSE_HEADER_AGAIN.)
AfterHeaders_NoError(k, p) ==
  [k |-> [k EXCEPT !.h.inBuffer = p.buf, !.h.hState = p.hState,
                   !.h.headers = p.headers],
   brk |-> TRUE]
AfterHeaders(k, p) ==
  LET k1 == [k EXCEPT !.h.inBuffer = p.buf, !.h.hState = p.hState,
                      !.h.headers = p.headers]
  IN IF p.res = "again" THEN [k |-> k1, brk |-> TRUE]
     ELSE IF p.res = "error"
       THEN [k |-> HandleError([k1 EXCEPT !.h.error = TRUE], "400", "Bad Request"),
             brk |-> TRUE]
     ELSE [k |-> [k1 EXCEPT !.h = Move(@, IF k1.h.method = "POST"
                                            THEN "STATE_RECV_BODY"
                                            ELSE "STATE_ANALYSIS")],
           brk |-> FALSE]

HeaderStage(x) ==
  IF x.brk \/ x.k.h.state # "STATE_PARSE_HEADERS" THEN x
  ELSE Then(LAMBDA p : AfterHeaders(x.k, p),
            ParseHeaders(x.k.h.inBuffer, x.k.h.hState, x.k.h.headers))

\* The STATE_RECV_BODY case.  (BodyStage_Lenient takes a missing
\* Content-length for a length of 0.)
BodyStage_Lenient(x) ==
  IF x.brk \/ x.k.h.state # "STATE_RECV_BODY" THEN x
  ELSE [x EXCEPT !.k.h = Move(@, "STATE_ANALYSIS")]
BodyStage(x) ==
  IF x.brk \/ x.k.h.state # "STATE_RECV_BODY" THEN x
  ELSE IF S_ContentLength \notin DOMAIN x.k.h.headers
    THEN [k |-> HandleError([x.k EXCEPT !.h.error = TRUE], "400",
                            "Bad Request: Lack of argument (Content-length)"),
          brk |-> TRUE]
  ELSE LET n == Stoi(x.k.h.headers[S_ContentLength])
       IN IF ~n.ok THEN [k |-> [x.k EXCEPT !.h.threw = TRUE], brk |-> TRUE]
          ELSE IF Len(x.k.h.inBuffer) < n.val THEN [x EXCEPT !.brk = TRUE]
          ELSE [x EXCEPT !.k.h = Move(@, "STATE_ANALYSIS")]

\* The STATE_ANALYSIS case with the outcome a of analysisRequest.
\* (AfterAnalysis_Skip goes back to STATE_PARSE_URI at once.)
AfterAnalysis_Skip(a) ==
  IF a.ok THEN [k |-> [a.k EXCEPT !.h = Move(@, "STATE_PARSE_URI")], brk |-> TRUE]
  ELSE [k |-> [a.k EXCEPT !.h.error = TRUE], brk |-> TRUE]
AfterAnalysis(a) ==
  IF a.ok THEN [k |-> [a.k EXCEPT !.h = Move(@, "STATE_FINISH")], brk |-> TRUE]
  ELSE [k |-> [a.k EXCEPT !.h.error = TRUE], brk |-> TRUE]

AnalysisStage(x) ==
  IF x.brk \/ x.k.h.state # "STATE_ANALYSIS" THEN x
  ELSE Then(AfterAnalysis, AnalysisRequest(x.k))

\* HttpData::handleRead after its do-while: d is the context the loop left,
\* w the context after the handleWrite the function calls when there is output.
RECURSIVE HandleRead(_)
AfterStages(d, w) ==
  IF d.h.error \/ d.h.threw THEN d
  ELSE IF ~w.h.error /\ w.h.state = "STATE_FINISH"
    THEN IF w.h.inBuffer # <<>> /\ w.h.cstate # "H_DISCONNECTING"
           THEN HandleRead([w EXCEPT !.h = Reset(@)])
           ELSE [w EXCEPT !.h = Reset(@)]
  ELSE IF ~w.h.error /\ w.h.cstate # "H_DISCONNECTED"
    THEN [w EXCEPT !.ev = @ \cup {EPOLLIN}]
  ELSE w

FlushStage(x) ==
  Then(LAMBDA w : AfterStages(x.k, w),
       IF x.k.h.outBuffer # <<>> THEN HandleWrite(x.k) ELSE x.k)

\* HttpData::handleRead
HandleRead(k) ==
  Then(FlushStage,
    Then(AnalysisStage,
      Then(BodyStage,
        Then(HeaderStage,
          Then(UriStage,
            Then(ReadStage, k))))))

\* ---------------------------------------------------------- TimerManager
ClockCycle == 10000 * 1000

\* TimerNode::TimerNode: the expiry is the reduced clock plus the timeout.
\* (pushed is history: the reduced clock at construction.)
TimerNode(id, c, timeout) ==
  [id |-> id, exp |-> now + timeout, deleted |-> FALSE, conn |-> c,
   pushed |-> now]

\* TimerNode::clearReq on the node a connection's timer_ points to.
ClearReq_KeepReq(q, id) ==
  {IF n.id = id THEN [n EXCEPT !.deleted = TRUE] ELSE n : n \in q}
ClearReq(q, id) ==
  {IF n.id = id THEN [n EXCEPT !.deleted = TRUE, !.conn = NoConn] ELSE n : n \in q}

\* timerNodeQueue.top(): TimerCmp puts the smallest expiry first; equal
\* expiries come out in creation order here.
Top(q) ==
  CHOOSE n \in q : \A m \in q : n.exp < m.exp \/ (n.exp = m.exp /\ n.id <= m.id)

\* TimerNode::isValid at clock value t
IsValid_Never(n, t) == FALSE
IsValid(n, t) == t < n.exp

\* TimerManager::handleExpiredEvent: the nodes left in the queue.
RECURSIVE Reap(_, _)
Reap(q, t) ==
  IF q = {} THEN q
  ELSE IF Top(q).deleted \/ ~IsValid(Top(q), t) THEN Reap(q \ {Top(q)}, t)
  ELSE q

\* The connections whose node was popped while it still held them:
\* ~TimerNode calls handleClose on each.
ReapClosed_None(q, t) == {}
ReapClosed(q, t) == {n.conn : n \in {m \in q \ Reap(q, t) : m.conn # NoConn}}

\* The expiries of the nodes it pops, in pop order, leaving out the nodes
\* clearReq had marked.
RECURSIVE Popped(_, _)
Popped(q, t) ==
  IF q = {} THEN <<>>
  ELSE IF Top(q).deleted THEN Popped(q \ {Top(q)}, t)
  ELSE IF ~IsValid(Top(q), t) THEN <<Top(q).exp>> \o Popped(q \ {Top(q)}, t)
  ELSE <<>>

\* ------------------------------------------------------------ ownership
NewEventTask(c) == [kind |-> "newEvent", id |-> c]

\* Some shared_ptr<HttpData> points to connection c: req_info of the
\* acceptor, a registry slot, a timer node or a queued newEvent task.
Referenced(c) ==
  \/ held = c
  \/ \E r \in Reactors :
       \/ \E fd \in Fds : fd2http[r][fd] = c
       \/ \E n \in timerQ[r] : n.conn = c
       \/ \E i \in 1..Len(pendingFunctors[r]) : pendingFunctors[r][i] = NewEventTask(c)
       \/ \E i \in 1..Len(functors[r]) : functors[r][i] = NewEventTask(c)

\* The objects and sockets after a step that leaves them as h and s: an
\* HttpData nothing points to any more is destroyed, and ~HttpData closes its
\* descriptor.
Finalize(h, s) ==
  /\ http' = [c \in Conns |->
        IF h[c].live /\ ~Referenced(c)' THEN [h[c] EXCEPT !.live = FALSE] ELSE h[c]]
  /\ sock' = [c \in Conns |->
        IF h[c].live /\ ~Referenced(c)' THEN [s[c] EXCEPT !.st = "closed"] ELSE s[c]]

\* A thread operated on the poller, registry or timers of loop `owner`.
Touch(op, owner, by) == touchLog \cup {[op |-> op, owner |-> owner, by |-> by]}

\* HttpData::handleClose -> Epoll::epoll_del for each connection of cs: the
\* kernel registrations, ready lists and registries after it.  (DelChan_Keep
\* and DelHttp_Keep are epoll_del without its fd2chan_[fd].reset() and
\* without its fd2http_[fd].reset().)
ClosedAt(cs, r, fd) == \E c \in cs : http[c].loop = r /\ sock[c].fd = fd
DelReg(reg, cs) ==
  [r \in Reactors |-> [fd \in Fds |->
     IF ClosedAt(cs, r, fd) THEN Unregistered ELSE reg[r][fd]]]
DelReady(rdy, cs) ==
  [r \in Reactors |-> SelectSeq(rdy[r], LAMBDA fd : ~ClosedAt(cs, r, fd))]
DelChan_Keep(f2c, cs) == f2c
DelChan(f2c, cs) ==
  [r \in Reactors |-> [fd \in Fds |->
     IF ClosedAt(cs, r, fd) THEN NoChan ELSE f2c[r][fd]]]
DelHttp_Keep(f2h, cs) == f2h
DelHttp(f2h, cs) ==
  [r \in Reactors |-> [fd \in Fds |->
     IF ClosedAt(cs, r, fd) THEN NoConn ELSE f2h[r][fd]]]

\* ----------------------------------------------------------------- Channel
\* Channel::EqualAndUpdateLastEvents: the comparison's result; the caller
\* stores events_ into lastEvents_.
EqualLastEvents_Always(ch, ev) == TRUE
EqualLastEvents(ch, ev) == chLast[ch] = ev

\* ------------------------------------------------------------- EventLoop
IsInLoopThread(r, t) == t = r

\* The condition under which queueInLoop writes to the wakeup descriptor.
NeedWakeup_Never(r, t) == FALSE
NeedWakeup(r, t) == ~IsInLoopThread(r, t) \/ callingPendingFunctors[r]

\* EventLoop::wakeup: one 8-byte write adds 1 to the eventfd counter.
WakeupCount(cnt, r) == [cnt EXCEPT ![r] = @ + 1]

UserTask(i) == [kind |-> "user", id |-> i]

\* The history entry of an append or of an execution.
LogEntry(r, t, task) ==
  [task |-> task, by |-> t, iter |-> iter[r], phase |-> pc[r]]

\* queueInLoop called on the loop's own thread (from a handler or a task):
\* the queue, eventfd counter and ready list after it, for the tasks in `ts`
\* (at most one in this model).
InLoopAppend(r, ts) == [pendingFunctors EXCEPT ![r] = @ \o ts]
InLoopCount(r, ts) ==
  IF ts # <<>> /\ NeedWakeup(r, r) THEN WakeupCount(efdCount, r) ELSE efdCount
InLoopReady(r, ts) ==
  IF ts # <<>> /\ NeedWakeup(r, r)
    THEN EdgeOn(krdy, kreg, r, ChFd(WakeCh(r)), {EPOLLIN})
    ELSE krdy
InLoopLog(r, ts) ==
  [appendLog EXCEPT ![r] = @ \o [i \in 1..Len(ts) |-> LogEntry(r, r, ts[i])]]

\* The tasks a piece of client code may hand to queueInLoop: none, or the next
\* unused one.
ClientChoices ==
  {<<>>} \cup (IF nextTask <= MaxTasks THEN {<<UserTask(nextTask)>>} ELSE {})

\* The history of a loop's task queue has begun.
Tracked(r) == appendLog[r] # <<>>

\* Epoll::poll -> getEventsRequest: the ready list is consumed; a descriptor
\* whose current readiness is of interest and that resolves to a channel is
\* returned with its revents set and its events cleared.
Delivered(r) ==
  SelectSeq(krdy[r], LAMBDA fd :
     /\ kreg[r][fd].reg
     /\ Reported(kreg[r][fd], PollMask(fd)) # {}
     /\ fd2chan[r][fd] # NoChan)

Poll(r) ==
  /\ pc[r] = "poll"
  /\ Delivered(r) # <<>>
  /\ LET d == Delivered(r)
         chans == [i \in 1..Len(d) |-> fd2chan[r][d[i]]]
         chset == {chans[i] : i \in 1..Len(d)}
     IN /\ ret' = [ret EXCEPT ![r] = chans]
        /\ chRevents' = [ch \in Channels |->
              IF ch \in chset
                THEN Reported(kreg[r][ChFd(ch)], PollMask(ChFd(ch)))
                ELSE chRevents[ch]]
        /\ chEvents' = [ch \in Channels |-> IF ch \in chset THEN {} ELSE chEvents[ch]]
        /\ kreg' = [kreg EXCEPT ![r] = [fd \in Fds |->
              IF (\E i \in 1..Len(d) : d[i] = fd) /\ EPOLLONESHOT \in kreg[r][fd].ev
                THEN [kreg[r][fd] EXCEPT !.off = TRUE]
                ELSE kreg[r][fd]]]
  /\ krdy' = [krdy EXCEPT ![r] = <<>>]
  /\ iter' = IF Tracked(r) THEN [iter EXCEPT ![r] = @ + 1] ELSE iter
  /\ pc' = [pc EXCEPT ![r] = "dispatch"]
  /\ UNCHANGED <<pendingFunctors, functors, callingPendingFunctors, quit,
                 efdCount, fd2chan, chLast, midQueue>>
  /\ UNCHANGED <<userVars, histVars, serverVars>>

\* Channel::handleEvents on the wakeup channel: EventLoop::handleRead drains
\* the counter and sets events_; EventLoop::handleConn calls updatePoller,
\* which issues no kernel update because the mask did not change.
DispatchWake(r) ==
  /\ pc[r] = "dispatch"
  /\ ret[r] # <<>>
  /\ Head(ret[r]) = WakeCh(r)
  /\ EPOLLIN \in chRevents[WakeCh(r)]
  /\ efdCount' = [efdCount EXCEPT ![r] = 0]
  /\ chEvents' = [chEvents EXCEPT ![WakeCh(r)] = {EPOLLIN, EPOLLET}]
  /\ chLast' = [chLast EXCEPT ![WakeCh(r)] = {EPOLLIN, EPOLLET}]
  /\ kreg' = IF EqualLastEvents(WakeCh(r), {EPOLLIN, EPOLLET})
               THEN kreg
               ELSE [kreg EXCEPT ![r][ChFd(WakeCh(r))] = Registered({EPOLLIN, EPOLLET})]
  /\ ret' = [ret EXCEPT ![r] = Tail(@)]
  /\ UNCHANGED <<pc, iter, pendingFunctors, functors, callingPendingFunctors,
                 quit, krdy, fd2chan, chRevents, midQueue>>
  /\ UNCHANGED <<userVars, histVars, serverVars>>

\* Channel::handleEvents on a client channel: its read callback drains the
\* descriptor and may call queueInLoop on the loop it runs on.
DispatchUser(r) ==
  /\ pc[r] = "dispatch"
  /\ ret[r] # <<>>
  /\ Head(ret[r]) = UserCh
  /\ \E ts \in ClientChoices :
       /\ pendingFunctors' = InLoopAppend(r, ts)
       /\ efdCount' = InLoopCount(r, ts)
       /\ krdy' = InLoopReady(r, ts)
       /\ appendLog' = InLoopLog(r, ts)
       /\ nextTask' = nextTask + Len(ts)
  /\ usrCount' = 0
  /\ chEvents' = [chEvents EXCEPT ![UserCh] = {EPOLLIN, EPOLLET}]
  /\ chLast' = [chLast EXCEPT ![UserCh] = {EPOLLIN, EPOLLET}]
  /\ ret' = [ret EXCEPT ![r] = Tail(@)]
  /\ UNCHANGED <<pc, iter, functors, callingPendingFunctors, quit, kreg,
                 fd2chan, chRevents, midQueue, usrEdges, runLog, popLog, callLog>>
  /\ UNCHANGED serverVars

\* EventLoop::doPendingFunctors, first half: the flag is raised and the queue
\* is swapped into the local vector under the mutex.
SwapFunctors(r) ==
  /\ pc[r] = "dispatch"
  /\ ret[r] = <<>>
  /\ callingPendingFunctors' = [callingPendingFunctors EXCEPT ![r] = TRUE]
  /\ functors' = [functors EXCEPT ![r] = pendingFunctors[r]]
  /\ pendingFunctors' = [pendingFunctors EXCEPT ![r] = <<>>]
  /\ pc' = [pc EXCEPT ![r] = "run"]
  /\ UNCHANGED <<iter, ret, quit, efdCount, kreg, krdy, fd2chan, chEvents,
                 chLast, chRevents, midQueue>>
  /\ UNCHANGED <<userVars, histVars, serverVars>>

\* The functor doPendingFunctors calls next, and the ones left after it.
NextFunctor_Last(fs) == fs[Len(fs)]
NextFunctor(fs) == Head(fs)
RestFunctors(fs) ==
  LET k == CHOOSE i \in 1..Len(fs) : fs[i] = NextFunctor(fs)
  IN [i \in 1..(Len(fs) - 1) |-> IF i < k THEN fs[i] ELSE fs[i + 1]]

\* Where queueInLoop puts a task appended while the loop runs its functors:
\* into pendingFunctors_, never into the local vector being run.
SameDrain_Yes(r) == callingPendingFunctors[r]
SameDrain(r) == FALSE

\* One functors[i]() call of doPendingFunctors on a client task, which may
\* itself call queueInLoop.
RunUserFunctor(r) ==
  /\ pc[r] = "run"
  /\ functors[r] # <<>>
  /\ NextFunctor(functors[r]).kind = "user"
  /\ \E ts \in ClientChoices :
       /\ pendingFunctors' =
            IF SameDrain(r) THEN pendingFunctors ELSE InLoopAppend(r, ts)
       /\ functors' = [functors EXCEPT ![r] =
            IF SameDrain(r) THEN RestFunctors(@) \o ts ELSE RestFunctors(@)]
       /\ efdCount' = InLoopCount(r, ts)
       /\ krdy' = InLoopReady(r, ts)
       /\ appendLog' = InLoopLog(r, ts)
       /\ nextTask' = nextTask + Len(ts)
  /\ runLog' = [runLog EXCEPT ![r] =
        Append(@, LogEntry(r, r, NextFunctor(functors[r])))]
  /\ UNCHANGED <<pc, iter, ret, callingPendingFunctors, quit, kreg, fd2chan,
                 chEvents, chLast, chRevents, midQueue, usrCount, usrEdges,
                 popLog, callLog>>
  /\ UNCHANGED serverVars

\* End of doPendingFunctors, then Epoll::handleExpired, whose popped nodes
\* close the connections they still hold, and the loop condition.
EndIteration(r) ==
  /\ pc[r] = "run"
  /\ functors[r] = <<>>
  /\ callingPendingFunctors' = [callingPendingFunctors EXCEPT ![r] = FALSE]
  /\ pc' = [pc EXCEPT ![r] = IF quit[r] THEN "exited" ELSE "poll"]
  /\ LET cs == ReapClosed(timerQ[r], now)
     IN /\ timerQ' = [timerQ EXCEPT ![r] = Reap(@, now)]
        /\ kreg' = DelReg(kreg, cs)
        /\ krdy' = DelReady(krdy, cs)
        /\ fd2chan' = DelChan(fd2chan, cs)
        /\ fd2http' = DelHttp(fd2http, cs)
        /\ touchLog' = touchLog \cup
              {[op |-> "expire", owner |-> http[c].loop, by |-> r] : c \in cs}
        /\ UNCHANGED <<iter, ret, pendingFunctors, functors, quit, efdCount,
                       chEvents, chLast, chRevents, midQueue>>
        /\ popLog' = [popLog EXCEPT ![r] = @ \o Popped(timerQ[r], now)]
        /\ UNCHANGED <<userVars, appendLog, runLog, callLog, timerSeq, acceptVars,
                       timeVars>>
        /\ Finalize([c \in Conns |->
                       IF c \in cs THEN [http[c] EXCEPT !.cstate = "H_DISCONNECTED",
                                                        !.timer = 0]
                       ELSE http[c]], sock)

\* EventLoop::loop entry: looping_ = true, quit_ = false.
LoopEnter(r) ==
  /\ pc[r] = "created"
  /\ quit' = [quit EXCEPT ![r] = FALSE]
  /\ pc' = [pc EXCEPT ![r] = "poll"]
  /\ UNCHANGED <<iter, ret, pendingFunctors, functors, callingPendingFunctors,
                 efdCount, kreg, krdy, fd2chan, chEvents, chLast, chRevents,
                 midQueue>>
  /\ UNCHANGED <<userVars, histVars, serverVars>>

\* queueInLoop called by another thread, first half: emplace_back under the
\* mutex.
ForeignAppend(t, r) ==
  /\ t # r
  /\ pc[r] \notin {"off", "exited"}
  /\ midQueue[t] = NoThread
  /\ nextTask <= MaxTasks
  /\ pendingFunctors' = [pendingFunctors EXCEPT ![r] = Append(@, UserTask(nextTask))]
  /\ appendLog' = [appendLog EXCEPT ![r] = Append(@, LogEntry(r, t, UserTask(nextTask)))]
  /\ nextTask' = nextTask + 1
  /\ midQueue' = [midQueue EXCEPT ![t] = r]
  /\ UNCHANGED <<pc, iter, ret, functors, callingPendingFunctors, quit,
                 efdCount, kreg, krdy, fd2chan, chEvents, chLast, chRevents,
                 usrCount, usrEdges, runLog, popLog, callLog>>
  /\ UNCHANGED serverVars

\* queueInLoop called by another thread, second half: the wakeup decision.
ForeignWakeup(t) ==
  /\ midQueue[t] # NoThread
  /\ LET r == midQueue[t]
     IN /\ efdCount' = IF NeedWakeup(r, t) THEN WakeupCount(efdCount, r) ELSE efdCount
        /\ krdy' = IF NeedWakeup(r, t)
                     THEN EdgeOn(krdy, kreg, r, ChFd(WakeCh(r)), {EPOLLIN})
                     ELSE krdy
  /\ midQueue' = [midQueue EXCEPT ![t] = NoThread]
  /\ UNCHANGED <<pc, iter, ret, pendingFunctors, functors, callingPendingFunctors,
                 quit, kreg, fd2chan, chEvents, chLast, chRevents>>
  /\ UNCHANGED <<userVars, histVars, serverVars>>

\* The client channel's descriptor becomes readable.
UserReady(r) ==
  /\ usrEdges < MaxUserEvents
  /\ kreg[r][ChFd(UserCh)].reg
  /\ usrCount' = usrCount + 1
  /\ usrEdges' = usrEdges + 1
  /\ krdy' = EdgeOn(krdy, kreg, r, ChFd(UserCh), {EPOLLIN})
  /\ UNCHANGED <<pc, iter, ret, pendingFunctors, functors, callingPendingFunctors,
                 quit, efdCount, kreg, fd2chan, chEvents, chLast, chRevents,
                 midQueue, nextTask>>
  /\ UNCHANGED <<histVars, serverVars>>

\* ---------------------------------------------------------------- acceptor
\* EventLoopThreadPool::getNextLoop: the loop handed out and the counter after.
GetNextLoop(n) == n + 1
NextAfter(n) == (n + 1) % NumWorkers

\* The loop whose queue handNewConn appends the newEvent task to: the loop
\* the connection was constructed with.
TaskLoop_Base(loop) == BaseLoop
TaskLoop(loop) == loop

\* The descriptor numbers accept() may return: the lowest free one, or one
\* at the ceiling when the process has that many descriptors open.
LowestFree ==
  CHOOSE fd \in ConnFds :
    /\ FdConn(fd) = NoConn
    /\ \A g \in ConnFds : FdConn(g) = NoConn => fd <= g
AcceptFds == {LowestFree, MAXFDS}

\* The admission check of handNewConn: accept_fd >= MAXFDS is turned away.
BelowCeiling_Any(fd) == TRUE
BelowCeiling(fd) == fd < MAXFDS

\* Server::handNewConn, one turn of its while loop for a connection the
\* kernel has completed: accept, getNextLoop, the admission check, the
\* HttpData, and the first half of queueInLoop.
AcceptConn(r) ==
  /\ r = BaseLoop
  /\ pc[r] = "dispatch"
  /\ ret[r] # <<>>
  /\ Head(ret[r]) = ListenCh
  /\ EPOLLIN \in chRevents[ListenCh]
  /\ held = NoConn
  /\ midQueue[r] = NoThread
  /\ acceptQ # <<>>
  /\ acceptQ' = Tail(acceptQ)
  /\ next_' = NextAfter(next_)
  /\ \E fd \in AcceptFds :
       LET c == Head(acceptQ)
           loop == GetNextLoop(next_)
           admit == BelowCeiling(fd)
       IN /\ assignLog' = Append(assignLog,
                            [conn |-> c, loop |-> loop, admitted |-> admit])
          /\ held' = IF admit THEN c ELSE NoConn
          /\ pendingFunctors' =
               IF admit
                 THEN [pendingFunctors EXCEPT ![TaskLoop(loop)] =
                         Append(@, NewEventTask(c))]
                 ELSE pendingFunctors
          /\ midQueue' = IF admit THEN [midQueue EXCEPT ![r] = TaskLoop(loop)]
                         ELSE midQueue
          /\ http' = IF admit THEN [http EXCEPT ![c] = HttpData(loop, TRUE)]
                     ELSE http
          /\ sock' = [sock EXCEPT ![c].fd = fd,
                                  ![c].st = IF admit THEN "open" ELSE "closed"]
  /\ UNCHANGED <<pc, iter, ret, functors, callingPendingFunctors, quit, efdCount,
                 kreg, krdy, fd2chan, chEvents, chLast, chRevents>>
  /\ UNCHANGED <<userVars, histVars, fd2http, timerQ, timerSeq, nconn, touchLog,
                 timeVars, loop_, loops_>>

\* The end of that turn: req_info goes out of scope.
ReleaseReqInfo(r) ==
  /\ r = BaseLoop
  /\ held # NoConn
  /\ midQueue[r] = NoThread
  /\ held' = NoConn
  /\ UNCHANGED <<loopVars, userVars, histVars, fd2http, timerQ, timerSeq,
                 acceptQ, nconn, next_, assignLog, loop_, loops_, touchLog,
                 timeVars>>
  /\ Finalize(http, sock)

\* accept() reports that nothing is left: handNewConn sets the acceptor's
\* events_, and handThisConn calls updatePoller, which issues no kernel
\* update because the mask did not change.
AcceptDone(r) ==
  /\ r = BaseLoop
  /\ pc[r] = "dispatch"
  /\ ret[r] # <<>>
  /\ Head(ret[r]) = ListenCh
  /\ held = NoConn
  /\ midQueue[r] = NoThread
  /\ EPOLLIN \in chRevents[ListenCh]
  /\ acceptQ = <<>>
  /\ chEvents' = [chEvents EXCEPT ![ListenCh] = {EPOLLIN, EPOLLET}]
  /\ chLast' = [chLast EXCEPT ![ListenCh] = {EPOLLIN, EPOLLET}]
  /\ kreg' = IF EqualLastEvents(ListenCh, {EPOLLIN, EPOLLET})
               THEN kreg
               ELSE [kreg EXCEPT ![r][ListenFd] = Registered({EPOLLIN, EPOLLET})]
  /\ ret' = [ret EXCEPT ![r] = Tail(@)]
  /\ UNCHANGED <<pc, iter, pendingFunctors, functors, callingPendingFunctors,
                 quit, efdCount, krdy, fd2chan, chRevents, midQueue>>
  /\ UNCHANGED <<userVars, histVars, serverVars>>

\* HttpData::newEvent run as a task: the Channel asks for DEFAULT_EVENT and
\* Epoll::epoll_add arms the first timer, fills both registries and
\* registers the descriptor, which the kernel reports if it is ready already.
RunNewEvent(r) ==
  /\ pc[r] = "run"
  /\ functors[r] # <<>>
  /\ NextFunctor(functors[r]).kind = "newEvent"
  /\ LET c == NextFunctor(functors[r]).id
         L == http[c].loop
         fd == sock[c].fd
         added == ~kreg[L][fd].reg
         reg == IF added THEN [kreg EXCEPT ![L][fd] = Registered(DEFAULT_EVENT)]
                ELSE kreg
     IN /\ chEvents' = [chEvents EXCEPT ![c] = DEFAULT_EVENT]
        /\ chLast' = [chLast EXCEPT ![c] = DEFAULT_EVENT]
        /\ timerSeq' = timerSeq + 1
        /\ timerQ' = [timerQ EXCEPT ![L] =
              @ \cup {TimerNode(timerSeq + 1, c, DEFAULT_EXPIRED_TIME)}]
        /\ fd2http' = [fd2http EXCEPT ![L][fd] = c]
        /\ fd2chan' = [fd2chan EXCEPT ![L][fd] = IF added THEN c ELSE NoChan]
        /\ kreg' = reg
        /\ krdy' = IF added THEN EdgeOn(krdy, reg, L, fd, PollMask(fd)) ELSE krdy
        /\ touchLog' = Touch("add", L, r)
        /\ functors' = [functors EXCEPT ![r] = RestFunctors(@)]
        /\ UNCHANGED <<pc, iter, ret, pendingFunctors, callingPendingFunctors,
                       quit, efdCount, chRevents, midQueue>>
        /\ UNCHANGED <<userVars, histVars, acceptVars, timeVars>>
        /\ Finalize([http EXCEPT ![c].timer = timerSeq + 1], sock)

\* ------------------------------------------------- dispatch of a connection
\* HttpData::handleConn after seperateTimer: the mask it leaves in events_,
\* and what it does with it: "update" (updatePoller with a timeout), "keep"
\* (nothing) or "close" (runInLoop(handleClose), run at once on the loop's
\* thread).  (HandleConn_Flat gives the connection without keep-alive the
\* short timeout whether or not an interest remained.)
HandleConn_Flat(k) ==
  IF ~k.h.error /\ k.h.cstate = "H_CONNECTED"
    THEN [act |-> "update",
          ev |-> IF k.ev = {} THEN {EPOLLIN, EPOLLET}
                 ELSE (IF EPOLLIN \in k.ev /\ EPOLLOUT \in k.ev
                         THEN {EPOLLOUT} ELSE k.ev) \cup {EPOLLET},
          timeout |-> IF k.h.keepAlive THEN DEFAULT_KEEP_ALIVE_TIME
                      ELSE DEFAULT_EXPIRED_TIME]
  ELSE IF ~k.h.error /\ k.h.cstate = "H_DISCONNECTING" /\ EPOLLOUT \in k.ev
    THEN [act |-> "keep", ev |-> {EPOLLOUT, EPOLLET}, timeout |-> 0]
  ELSE [act |-> "close", ev |-> k.ev, timeout |-> 0]
HandleConn(k) ==
  IF ~k.h.error /\ k.h.cstate = "H_CONNECTED"
    THEN IF k.ev # {}
           THEN [act |-> "update",
                 ev |-> (IF EPOLLIN \in k.ev /\ EPOLLOUT \in k.ev
                           THEN {EPOLLOUT} ELSE k.ev) \cup {EPOLLET},
                 timeout |-> IF k.h.keepAlive THEN DEFAULT_KEEP_ALIVE_TIME
                             ELSE DEFAULT_EXPIRED_TIME]
         ELSE IF k.h.keepAlive
           THEN [act |-> "update", ev |-> {EPOLLIN, EPOLLET},
                 timeout |-> DEFAULT_KEEP_ALIVE_TIME]
         ELSE [act |-> "update", ev |-> {EPOLLIN, EPOLLET},
               timeout |-> DEFAULT_KEEP_ALIVE_TIME \div 2]
  ELSE IF ~k.h.error /\ k.h.cstate = "H_DISCONNECTING" /\ EPOLLOUT \in k.ev
    THEN [act |-> "keep", ev |-> {EPOLLOUT, EPOLLET}, timeout |-> 0]
  ELSE [act |-> "close", ev |-> k.ev, timeout |-> 0]

\* Channel::handleEvents, the two cases in which no handler of the
\* connection is called.
NoHandler(rev) ==
  (EPOLLHUP \in rev /\ EPOLLIN \notin rev) \/ EPOLLERR \in rev

\* The context after the read and write handlers Channel::handleEvents calls
\* for the returned events rev; calls lists the handlers in call order.
WriteAfter(k, rev) ==
  IF EPOLLOUT \in rev /\ ~k.h.threw
    THEN HandleWrite([k EXCEPT !.calls = Append(@, "write")])
    ELSE k
ReadFirst(k, rev) ==
  IF rev \cap {EPOLLIN, EPOLLPRI, EPOLLRDHUP} # {}
    THEN HandleRead([k EXCEPT !.calls = Append(@, "read")])
    ELSE k
\* (AfterHandlers_WriteFirst calls the write handler before the read handler.)
AfterHandlers_WriteFirst(c, rev) ==
  Then(LAMBDA k : ReadFirst(k, rev),
       WriteAfter([h |-> http[c], s |-> sock[c], ev |-> {}, calls |-> <<>>], rev))
AfterHandlers(c, rev) ==
  Then(LAMBDA k : WriteAfter(k, rev),
       ReadFirst([h |-> http[c], s |-> sock[c], ev |-> {}, calls |-> <<>>], rev))

\* HttpData installs a read, a write and a connection handler on its Channel,
\* and no error handler.
HasErrorHandler == FALSE

\* Channel::handleEvents on a connection's channel: the handlers, then
\* HttpData::handleConn with Epoll::epoll_mod or HttpData::handleClose.  An
\* exception that leaves a handler is caught nowhere: std::terminate ends
\* every thread of the process.
HandleEvents(r, c, k, hc) ==
  /\ LET L == http[c].loop
         fd == sock[c].fd
         quiet == NoHandler(chRevents[c]) \/ k.h.threw
         act == IF quiet THEN "none" ELSE hc.act
         changed == act = "update" /\ ~EqualLastEvents(c, hc.ev)
         reg == IF changed THEN [kreg EXCEPT ![L][fd] = Registered(hc.ev)]
                ELSE IF act = "close" THEN DelReg(kreg, {c})
                ELSE kreg
         s1 == IF NoHandler(chRevents[c]) THEN sock ELSE [sock EXCEPT ![c] = k.s]
         h1 == IF NoHandler(chRevents[c]) THEN http
               ELSE [http EXCEPT ![c] =
                      [k.h EXCEPT
                         !.timer = IF act = "update" THEN timerSeq + 1
                                   ELSE IF quiet THEN @ ELSE 0,
                         !.cstate = IF act = "close" THEN "H_DISCONNECTED" ELSE @]]
     IN /\ chEvents' = [chEvents EXCEPT ![c] =
              IF NoHandler(chRevents[c]) THEN {} ELSE IF quiet THEN k.ev ELSE hc.ev]
        /\ chLast' = IF act = "update" THEN [chLast EXCEPT ![c] = hc.ev] ELSE chLast
        /\ timerSeq' = IF act = "update" THEN timerSeq + 1 ELSE timerSeq
        /\ timerQ' = [timerQ EXCEPT ![L] =
              IF NoHandler(chRevents[c]) THEN @
              ELSE IF quiet
                THEN (IF k.h.timer = 0 THEN ClearReq(@, http[c].timer) ELSE @)
              ELSE ClearReq(@, http[c].timer) \cup
                   (IF act = "update"
                      THEN {TimerNode(timerSeq + 1, c, hc.timeout)} ELSE {})]
        /\ kreg' = reg
        /\ krdy' = IF changed THEN EdgeOn(krdy, reg, L, fd, PollMaskOf(s1, fd))
                   ELSE IF act = "close" THEN DelReady(krdy, {c})
                   ELSE krdy
        /\ fd2chan' = IF act = "close" THEN DelChan(fd2chan, {c}) ELSE fd2chan
        /\ fd2http' = IF act = "close" THEN DelHttp(fd2http, {c}) ELSE fd2http
        /\ touchLog' = IF NoHandler(chRevents[c]) THEN touchLog
                       ELSE Touch("dispatch", L, r)
        /\ pc' = IF k.h.threw THEN [t \in Reactors |-> "aborted"] ELSE pc
        /\ midQueue' = IF k.h.threw THEN [t \in Threads |-> NoThread] ELSE midQueue
        /\ UNCHANGED <<iter, pendingFunctors, functors, callingPendingFunctors,
                       quit, efdCount, chRevents>>
        /\ callLog' = [callLog EXCEPT ![c] =
              IF EPOLLHUP \in chRevents[c] /\ EPOLLIN \notin chRevents[c] THEN <<>>
              ELSE IF EPOLLERR \in chRevents[c]
                THEN (IF HasErrorHandler THEN <<"error">> ELSE <<>>)
              ELSE IF quiet THEN k.calls ELSE Append(k.calls, "conn")]
        /\ UNCHANGED <<userVars, appendLog, runLog, popLog, acceptVars, timeVars>>
        /\ Finalize(h1, s1)

DispatchedConn(r, c, k) == HandleEvents(r, c, k, HandleConn(k))

DispatchConn(r) ==
  /\ pc[r] = "dispatch"
  /\ ret[r] # <<>>
  /\ Head(ret[r]) \in Conns
  /\ ret' = [ret EXCEPT ![r] = Tail(@)]
  /\ \E k \in {AfterHandlers(Head(ret[r]), chRevents[Head(ret[r])])} :
       DispatchedConn(r, Head(ret[r]), k)

\* ------------------------------------------------------------------- peers
CRLF == <<CR, LF>>
S_HTTP == <<"H", "T", "T", "P">>
RequestLine(method, target, ver) ==
  method \o <<" ", "/">> \o target \o <<" ">> \o S_HTTP \o <<"/">> \o ver
KeepAliveLine == S_Connection \o <<":", " ">> \o S_KeepAlive
HostLine == <<"H", "o", "s", "t", ":", " ", "x">>

\* GET /hello HTTP/1.1 with Connection: Keep-Alive, with a Host header only,
\* and with no header field at all.
HelloKeepAlive ==
  RequestLine(S_GET, S_hello, S_V11) \o CRLF \o KeepAliveLine \o CRLF \o CRLF
HelloOnce ==
  RequestLine(S_GET, S_hello, S_V11) \o CRLF \o HostLine \o CRLF \o CRLF
HelloBare == RequestLine(S_GET, S_hello, S_V11) \o CRLF \o CRLF

\* What a peer may send over one connection.
Scripts == {HelloKeepAlive, HelloKeepAlive \o HelloKeepAlive, HelloOnce, HelloBare}

\* The send-buffer space a connection starts with, in response units.
SndChoices == {Unlimited, 2}

\* ---- single requests, one per connection
S_PUT == <<"P", "U", "T">>
S_V20 == <<"2", ".", "0">>
S_nofile == <<"n", "o", "n", "e">>
Targets == {S_hello, S_favicon, S_index, S_nofile}

HeaderLine(key, value) == key \o <<":", " ">> \o value
Request(method, target, ver, header) ==
  RequestLine(method, target, ver) \o CRLF \o header \o CRLF \o CRLF

\* A request with a Host header.
Plain(method, target) == Request(method, target, S_V11, HostLine)
GetHeadRequests == {Plain(m, t) : m \in {S_GET, S_HEAD}, t \in Targets}

\* POST with a header block that has no Content-length, and with a
\* Content-length of the given text.
PostNoLength == Plain(S_POST, S_hello)
PostLength(v) == Request(S_POST, S_hello, S_V11, HeaderLine(S_ContentLength, v))
LengthTexts == {<<"0">>, <<"-", "1">>, <<"a", "b", "c">>}

\* POST with a declared length and a body of BodyLen bytes, one more than
\* declared; the body is as long as the header block, so that a segment
\* boundary can fall inside it.
BodyLen == 48
PostBody == PostLength(<<"4", "7">>) \o [i \in 1..BodyLen |-> "b"]

\* Requests the parser rejects: no known method, a version other than 1.0
\* and 1.1, a header line without a colon; the second followed by a good
\* request.
BadMethod == Plain(S_PUT, S_hello)
BadVersion == Request(S_GET, S_hello, S_V20, HostLine)
BadHeader == Request(S_GET, S_hello, S_V11, <<"H", "o", "s", "t">>)
BadThenGood == BadVersion \o HelloOnce

\* The longest header value HttpData::parseHeaders means to take, and
\* requests whose one header value has n bytes.
MaxValueLen == 255
ValueOf(n) == [i \in 1..n |-> "a"]
LongValue(n) == Request(S_GET, S_hello, S_V11, HeaderLine(<<"X">>, ValueOf(n)))
ValueLens == {MaxValueLen - 1, MaxValueLen, MaxValueLen + 1, MaxValueLen + 2}

Requests ==
  GetHeadRequests \cup {PostNoLength} \cup {PostLength(v) : v \in LengthTexts}
    \cup {PostBody}
    \cup {BadMethod, BadVersion, BadHeader, BadThenGood}
    \cup {LongValue(n) : n \in ValueLens}

\* The sizes of the next segment: all that is left, or its first half.
SegmentSizes(script) == {Len(script)} \cup {n \in {Len(script) \div 2} : n > 0}

\* The loop whose poller a socket's readiness is reported to.
SockEdge(rdy, c, key) ==
  IF sock[c].st = "open" /\ http[c].live
    THEN EdgeOn(rdy, kreg, http[c].loop, sock[c].fd, key)
    ELSE rdy

\* A peer completes a connection to the listening socket.
PeerConnect(limit, scripts, snds) ==
  /\ nconn < limit
  /\ nconn' = nconn + 1
  /\ acceptQ' = Append(acceptQ, nconn + 1)
  /\ \E sc \in scripts, sp \in snds :
       sock' = [sock EXCEPT ![nconn + 1] =
                  [NoSock EXCEPT !.st = "queued", !.script = sc, !.snd = sp]]
  /\ krdy' = EdgeOn(krdy, kreg, BaseLoop, ListenFd, {EPOLLIN})
  /\ UNCHANGED <<pc, iter, ret, pendingFunctors, functors, callingPendingFunctors,
                 quit, efdCount, kreg, fd2chan, chEvents, chLast, chRevents,
                 midQueue>>
  /\ UNCHANGED <<userVars, histVars, http, fd2http, timerQ, timerSeq, held,
                 next_, assignLog, loop_, loops_, touchLog, timeVars>>

\* A segment of the peer's request arrives.
PeerSend(c) ==
  /\ envCount < MaxEnvEvents
  /\ envCount' = envCount + 1
  /\ sock[c].st \in {"queued", "open"}
  /\ ~sock[c].fin /\ ~sock[c].rst
  /\ sock[c].script # <<>>
  /\ \E n \in SegmentSizes(sock[c].script) :
       sock' = [sock EXCEPT ![c].rcv = @ \o SubSeq(sock[c].script, 1, n),
                            ![c].sent = @ \o SubSeq(sock[c].script, 1, n),
                            ![c].script = SubSeq(@, n + 1, Len(@)),
                            ![c].segs = @ + 1]
  /\ krdy' = SockEdge(krdy, c, {EPOLLIN})
  /\ UNCHANGED <<pc, iter, ret, pendingFunctors, functors, callingPendingFunctors,
                 quit, efdCount, kreg, fd2chan, chEvents, chLast, chRevents,
                 midQueue>>
  /\ UNCHANGED <<userVars, histVars, http, fd2http, timerQ, timerSeq, acceptVars,
                 touchLog, now>>

\* The peer closes its write side after its last byte.
PeerFin(c) ==
  /\ envCount < MaxEnvEvents
  /\ envCount' = envCount + 1
  /\ sock[c].st = "open"
  /\ ~sock[c].fin /\ ~sock[c].rst
  /\ sock[c].script = <<>>
  /\ sock' = [sock EXCEPT ![c].fin = TRUE]
  /\ krdy' = SockEdge(krdy, c, {EPOLLIN, EPOLLRDHUP})
  /\ UNCHANGED <<pc, iter, ret, pendingFunctors, functors, callingPendingFunctors,
                 quit, efdCount, kreg, fd2chan, chEvents, chLast, chRevents,
                 midQueue>>
  /\ UNCHANGED <<userVars, histVars, http, fd2http, timerQ, timerSeq, acceptVars,
                 touchLog, now>>

\* The peer resets the connection: what was received is discarded.
PeerReset(c) ==
  /\ envCount < MaxEnvEvents
  /\ envCount' = envCount + 1
  /\ sock[c].st = "open"
  /\ ~sock[c].rst
  /\ sock' = [sock EXCEPT ![c].rst = TRUE, ![c].rcv = <<>>]
  /\ krdy' = SockEdge(krdy, c, {EPOLLIN, EPOLLOUT, EPOLLRDHUP, EPOLLERR, EPOLLHUP})
  /\ UNCHANGED <<pc, iter, ret, pendingFunctors, functors, callingPendingFunctors,
                 quit, efdCount, kreg, fd2chan, chEvents, chLast, chRevents,
                 midQueue>>
  /\ UNCHANGED <<userVars, histVars, http, fd2http, timerQ, timerSeq, acceptVars,
                 touchLog, now>>

\* The peer reads: a send buffer that a write found full has room again.
PeerDrain(c) ==
  /\ envCount < MaxEnvEvents
  /\ envCount' = envCount + 1
  /\ sock[c].st = "open"
  /\ sock[c].nospace /\ ~sock[c].rst
  /\ sock' = [sock EXCEPT ![c].snd = Unlimited, ![c].nospace = FALSE]
  /\ krdy' = SockEdge(krdy, c, {EPOLLOUT})
  /\ UNCHANGED <<pc, iter, ret, pendingFunctors, functors, callingPendingFunctors,
                 quit, efdCount, kreg, fd2chan, chEvents, chLast, chRevents,
                 midQueue>>
  /\ UNCHANGED <<userVars, histVars, http, fd2http, timerQ, timerSeq, acceptVars,
                 touchLog, now>>

\* Time passes: by one of the timeouts the program uses.
TickSteps == {DEFAULT_EXPIRED_TIME, DEFAULT_KEEP_ALIVE_TIME}
Tick ==
  /\ envCount < MaxEnvEvents
  /\ envCount' = envCount + 1
  /\ \E d \in TickSteps : now' = (now + d) % ClockCycle
  /\ UNCHANGED <<loopVars, userVars, histVars, connVars, acceptVars, touchLog>>

\* No connection exists, the acceptor is idle, no timer node was popped and
\* no connection dispatched; and the clock is at its origin.
NoTraffic ==
  /\ http = [c \in Conns |-> HttpData(NoThread, FALSE)]
  /\ sock = [c \in Conns |-> NoSock]
  /\ fd2http = [r \in Reactors |-> [fd \in Fds |-> NoConn]]
  /\ timerQ = [r \in Reactors |-> {}]
  /\ timerSeq = 0
  /\ acceptQ = <<>>
  /\ nconn = 0
  /\ held = NoConn
  /\ next_ = 0
  /\ assignLog = <<>>
  /\ touchLog = {}
  /\ envCount = 0
  /\ popLog = [r \in Reactors |-> <<>>]
  /\ callLog = [c \in Conns |-> <<>>]
NoConnections == NoTraffic /\ now = 0

\* ------------------------------------------------- the task queue of one loop
\* One worker loop, constructed and published but possibly not yet looping,
\* with a client channel registered on it; the other threads inject tasks.
LoopUnderTest == 1

InitLoop ==
  /\ pc = [r \in Reactors |-> IF r = LoopUnderTest THEN "created" ELSE "off"]
  /\ iter = [r \in Reactors |-> 0]
  /\ ret = [r \in Reactors |-> <<>>]
  /\ pendingFunctors = [r \in Reactors |-> <<>>]
  /\ functors = [r \in Reactors |-> <<>>]
  /\ callingPendingFunctors = [r \in Reactors |-> FALSE]
  /\ quit = [r \in Reactors |-> FALSE]
  /\ efdCount = [r \in Reactors |-> 0]
  /\ kreg = [r \in Reactors |-> [fd \in Fds |->
        IF r = LoopUnderTest /\ fd \in {ChFd(WakeCh(r)), ChFd(UserCh)}
          THEN Registered({EPOLLIN, EPOLLET}) ELSE Unregistered]]
  /\ krdy = [r \in Reactors |-> <<>>]
  /\ fd2chan = [r \in Reactors |-> [fd \in Fds |->
        IF r = LoopUnderTest /\ fd = ChFd(WakeCh(r)) THEN WakeCh(r)
        ELSE IF r = LoopUnderTest /\ fd = ChFd(UserCh) THEN UserCh
        ELSE NoChan]]
  /\ chEvents = [ch \in Channels |-> {EPOLLIN, EPOLLET}]
  /\ chLast = [ch \in Channels |-> {EPOLLIN, EPOLLET}]
  /\ chRevents = [ch \in Channels |-> {}]
  /\ midQueue = [t \in Threads |-> NoThread]
  /\ usrCount = 0
  /\ usrEdges = 0
  /\ nextTask = 1
  /\ appendLog = [r \in Reactors |-> <<>>]
  /\ runLog = [r \in Reactors |-> <<>>]
  /\ loop_ = [w \in Workers |-> IF w = LoopUnderTest THEN w ELSE NoThread]
  /\ loops_ = <<LoopUnderTest>>
  /\ NoConnections

LoopStep(r) ==
  \/ LoopEnter(r)
  \/ Poll(r)
  \/ DispatchWake(r)
  \/ DispatchUser(r)
  \/ SwapFunctors(r)
  \/ RunUserFunctor(r)
  \/ EndIteration(r)

NextLoop ==
  \/ LoopStep(LoopUnderTest)
  \/ \E t \in Threads : ForeignAppend(t, LoopUnderTest)
  \/ \E t \in Threads : ForeignWakeup(t)
  \/ UserReady(LoopUnderTest)

SpecLoop == InitLoop /\ [][NextLoop]_vars

\* The loop's thread and every thread that is between the two halves of
\* queueInLoop keep being scheduled.
FairSpecLoop ==
  /\ SpecLoop
  /\ WF_vars(LoopStep(LoopUnderTest))
  /\ \A t \in Threads : WF_vars(ForeignWakeup(t))

\* ------------------------------------------------------------- the server
\* The state Server::start leaves: every loop constructed with its wakeup
\* channel registered, the worker threads started, the acceptor's channel
\* registered with the base loop; no loop has entered loop() yet.
LoopsConstructed ==
  /\ pc = [r \in Reactors |-> "created"]
  /\ iter = [r \in Reactors |-> 0]
  /\ ret = [r \in Reactors |-> <<>>]
  /\ pendingFunctors = [r \in Reactors |-> <<>>]
  /\ functors = [r \in Reactors |-> <<>>]
  /\ callingPendingFunctors = [r \in Reactors |-> FALSE]
  /\ quit = [r \in Reactors |-> FALSE]
  /\ efdCount = [r \in Reactors |-> 0]
  /\ kreg = [r \in Reactors |-> [fd \in Fds |->
        IF fd = WakeCh(r) \/ (r = BaseLoop /\ fd = ListenFd)
          THEN Registered({EPOLLIN, EPOLLET}) ELSE Unregistered]]
  /\ krdy = [r \in Reactors |-> <<>>]
  /\ fd2chan = [r \in Reactors |-> [fd \in Fds |->
        IF fd = WakeCh(r) THEN WakeCh(r)
        ELSE IF r = BaseLoop /\ fd = ListenFd THEN ListenCh
        ELSE NoChan]]
  /\ chEvents = [ch \in Channels |->
        IF ch \in WakeChans \cup {ListenCh} THEN {EPOLLIN, EPOLLET} ELSE {}]
  /\ chLast = [ch \in Channels |->
        IF ch \in WakeChans \cup {ListenCh} THEN {EPOLLIN, EPOLLET} ELSE {}]
  /\ chRevents = [ch \in Channels |-> {}]
  /\ midQueue = [t \in Threads |-> NoThread]
  /\ usrCount = 0
  /\ usrEdges = 0
  /\ nextTask = 1
  /\ appendLog = [r \in Reactors |-> <<>>]
  /\ runLog = [r \in Reactors |-> <<>>]
  /\ loop_ = [w \in Workers |-> w]
  /\ loops_ = [i \in 1..NumWorkers |-> i]
InitServer == LoopsConstructed /\ NoConnections

\* One step of the thread of reactor r when no connection has traffic.
ServerStep(r) ==
  \/ LoopEnter(r)
  \/ Poll(r)
  \/ DispatchWake(r)
  \/ AcceptConn(r)
  \/ ForeignWakeup(r)
  \/ ReleaseReqInfo(r)
  \/ AcceptDone(r)
  \/ SwapFunctors(r)
  \/ RunNewEvent(r)
  \/ EndIteration(r)

\* Peers connect and stay silent.
NextServer ==
  \/ \E r \in Reactors : ServerStep(r)
  \/ PeerConnect(MaxConns, {<<>>}, {Unlimited})

SpecServer == InitServer /\ [][NextServer]_vars

\* Server::handNewConn when setSocketNonBlocking fails on the descriptor it
\* has just accepted: it returns at once, leaving the descriptor open and
\* owned by nothing, the rest of the accept queue untouched and events_ as
\* Channel::handleEvents had cleared it; handThisConn then calls
\* updatePoller with that empty mask.
NonBlockFailed(r) ==
  /\ r = BaseLoop
  /\ pc[r] = "dispatch"
  /\ ret[r] # <<>>
  /\ Head(ret[r]) = ListenCh
  /\ EPOLLIN \in chRevents[ListenCh]
  /\ held = NoConn
  /\ midQueue[r] = NoThread
  /\ acceptQ # <<>>
  /\ acceptQ' = Tail(acceptQ)
  /\ next_' = NextAfter(next_)
  /\ assignLog' = Append(assignLog,
        [conn |-> Head(acceptQ), loop |-> GetNextLoop(next_), admitted |-> FALSE])
  /\ sock' = [sock EXCEPT ![Head(acceptQ)].fd = LowestFree,
                          ![Head(acceptQ)].st = "open"]
  /\ chEvents' = [chEvents EXCEPT ![ListenCh] = {}]
  /\ chLast' = [chLast EXCEPT ![ListenCh] = {}]
  /\ kreg' = IF EqualLastEvents(ListenCh, {})
               THEN kreg
               ELSE [kreg EXCEPT ![r][ListenFd] = Registered({})]
  /\ ret' = [ret EXCEPT ![r] = Tail(@)]
  /\ UNCHANGED <<pc, iter, pendingFunctors, functors, callingPendingFunctors,
                 quit, efdCount, krdy, fd2chan, chRevents, midQueue>>
  /\ UNCHANGED <<userVars, histVars, http, fd2http, timerQ, timerSeq, nconn,
                 held, loop_, loops_, touchLog, timeVars>>

\* The server with silent peers, where setting an accepted descriptor
\* non-blocking may fail.
NextAccept ==
  \/ \E r \in Reactors : ServerStep(r)
  \/ NonBlockFailed(BaseLoop)
  \/ PeerConnect(MaxConns, {<<>>}, {Unlimited})

SpecAccept == InitServer /\ [][NextAccept]_vars

\* An exception escaped a handler: the process has terminated.
Crashed == \E c \in Conns : http[c].threw

ConnStep(r) ==
  \/ ServerStep(r)
  \/ DispatchConn(r)

\* Peers connect, send requests in segments, close and reset; time passes.
NextConn ==
  \/ \E r \in Reactors : ConnStep(r)
  \/ PeerConnect(MaxTraffic, Scripts, SndChoices)
  \/ \E c \in Conns : PeerSend(c)
  \/ \E c \in Conns : PeerFin(c)
  \/ \E c \in Conns : PeerReset(c)
  \/ \E c \in Conns : PeerDrain(c)
  \/ Tick

SpecConn == InitServer /\ [][NextConn]_vars

\* Every thread keeps being scheduled.
FairSpecConn == SpecConn /\ \A r \in Reactors : WF_vars(ConnStep(r))

\* One peer connects and sends one of Requests, whole or in two segments.
NextRequest ==
  \/ \E r \in Reactors : ConnStep(r)
  \/ PeerConnect(MaxTraffic, Requests, {Unlimited})
  \/ \E c \in Conns : PeerSend(c)

SpecRequest == InitServer /\ [][NextRequest]_vars

\* Peers connect, stay silent and close, so that later connections get the
\* descriptor numbers of earlier ones.
MaxReuse == 3
NextReuse ==
  \/ \E r \in Reactors : ConnStep(r)
  \/ PeerConnect(MaxReuse, {<<>>}, {Unlimited})
  \/ \E c \in Conns : PeerFin(c)

SpecReuse == InitServer /\ [][NextReuse]_vars

\* ------------------------------------------- one dispatch, any returned mask
\* Channel::handleEvents on the Channel of a connection that its worker has
\* registered and whose poll has just returned it: the returned mask is any
\* non-empty set of the bits handleEvents tests, not only those the
\* connection's registrations let the kernel report; the peer has sent
\* nothing, one request, the beginning of one, or a request followed by a
\* line feed and the beginning of a second one, and the send buffer is
\* unlimited or takes two units.
ReturnedBits ==
  {EPOLLIN, EPOLLOUT, EPOLLPRI, EPOLLRDHUP, EPOLLHUP, EPOLLERR}
ReturnedMasks == SUBSET ReturnedBits \ {{}}
HelloBegun == RequestLine(S_GET, S_hello, S_V11) \o CRLF \o <<"H", "o">>
ReceivedChoices ==
  {<<>>, HelloOnce, HelloKeepAlive, HelloBegun,
   HelloOnce \o <<LF>> \o HelloBegun, HelloKeepAlive \o <<LF>> \o HelloBegun,
   HelloOnce \o <<LF>> \o HelloOnce}

InitChannel ==
  /\ pc = [r \in Reactors |-> IF r = LoopUnderTest THEN "dispatch" ELSE "poll"]
  /\ iter = [r \in Reactors |-> 0]
  /\ ret = [r \in Reactors |-> IF r = LoopUnderTest THEN <<1>> ELSE <<>>]
  /\ pendingFunctors = [r \in Reactors |-> <<>>]
  /\ functors = [r \in Reactors |-> <<>>]
  /\ callingPendingFunctors = [r \in Reactors |-> FALSE]
  /\ quit = [r \in Reactors |-> FALSE]
  /\ efdCount = [r \in Reactors |-> 0]
  /\ kreg = [r \in Reactors |-> [fd \in Fds |->
        IF fd = WakeCh(r) \/ (r = BaseLoop /\ fd = ListenFd)
          THEN Registered({EPOLLIN, EPOLLET})
        ELSE IF r = LoopUnderTest /\ fd = 1
          THEN [Registered(DEFAULT_EVENT) EXCEPT !.off = TRUE]
        ELSE Unregistered]]
  /\ krdy = [r \in Reactors |-> <<>>]
  /\ fd2chan = [r \in Reactors |-> [fd \in Fds |->
        IF fd = WakeCh(r) THEN WakeCh(r)
        ELSE IF r = BaseLoop /\ fd = ListenFd THEN ListenCh
        ELSE IF r = LoopUnderTest /\ fd = 1 THEN 1
        ELSE NoChan]]
  /\ chEvents = [ch \in Channels |->
        IF ch \in WakeChans \cup {ListenCh} THEN {EPOLLIN, EPOLLET} ELSE {}]
  /\ chLast = [ch \in Channels |->
        IF ch \in WakeChans \cup {ListenCh} THEN {EPOLLIN, EPOLLET}
        ELSE IF ch = 1 THEN DEFAULT_EVENT ELSE {}]
  /\ \E mask \in ReturnedMasks :
       chRevents = [ch \in Channels |->
          IF ch = 1 THEN mask
          ELSE IF ch \in {WakeCh(LoopUnderTest), ListenCh} THEN {EPOLLIN} ELSE {}]
  /\ midQueue = [t \in Threads |-> NoThread]
  /\ usrCount = 0
  /\ usrEdges = 0
  /\ nextTask = 1
  /\ appendLog = [r \in Reactors |-> <<>>]
  /\ runLog = [r \in Reactors |-> <<>>]
  /\ popLog = [r \in Reactors |-> <<>>]
  /\ callLog = [c \in Conns |-> <<>>]
  /\ http = [c \in Conns |->
        IF c = 1 THEN [HttpData(LoopUnderTest, TRUE) EXCEPT !.timer = 1]
        ELSE HttpData(NoThread, FALSE)]
  /\ \E data \in ReceivedChoices, space \in SndChoices :
       /\ sock = [c \in Conns |->
            IF c = 1
              THEN [NoSock EXCEPT !.st = "open", !.fd = 1, !.rcv = data,
                                  !.sent = data, !.snd = space,
                                  !.segs = IF data = <<>> THEN 0 ELSE 1]
              ELSE NoSock]
       /\ envCount = IF data = <<>> THEN 0 ELSE 1
  /\ fd2http = [r \in Reactors |-> [fd \in Fds |->
        IF r = LoopUnderTest /\ fd = 1 THEN 1 ELSE NoConn]]
  /\ timerQ = [r \in Reactors |->
        IF r = LoopUnderTest
          THEN {[id |-> 1, exp |-> DEFAULT_EXPIRED_TIME, deleted |-> FALSE,
                 conn |-> 1, pushed |-> 0]}
          ELSE {}]
  /\ timerSeq = 1
  /\ acceptQ = <<>>
  /\ nconn = 1
  /\ held = NoConn
  /\ next_ = 1
  /\ assignLog = <<[loop |-> LoopUnderTest, conn |-> 1, admitted |-> TRUE]>>
  /\ loop_ = [w \in Workers |-> w]
  /\ loops_ = [i \in 1..NumWorkers |-> i]
  /\ touchLog = {[op |-> "add", owner |-> LoopUnderTest, by |-> LoopUnderTest]}
  /\ now = 0

NextChannel == DispatchConn(LoopUnderTest)

SpecChannel == InitChannel /\ [][NextChannel]_vars

\* --------------------------------------------------- the timer heap alone
\* The TimerManager of one loop, driven directly: nodes are pushed with the
\* program's timeouts, detached, and reaped, while the clock advances and
\* wraps.  The requests the nodes hold are only numbered here.
MaxTimers == 3
TimerTimeouts == {DEFAULT_EXPIRED_TIME, DEFAULT_KEEP_ALIVE_TIME}

\* The reduced clock when the server starts: any value of the cycle; here its
\* origin and two short timeouts before its end.
StartClocks == {0, ClockCycle - 2 * DEFAULT_EXPIRED_TIME}

InitTimer == LoopsConstructed /\ NoTraffic /\ now \in StartClocks

\* TimerManager::addTimer
AddTimer(r) ==
  /\ timerSeq < MaxTimers
  /\ timerSeq' = timerSeq + 1
  /\ \E timeout \in TimerTimeouts :
       timerQ' = [timerQ EXCEPT ![r] =
                    @ \cup {TimerNode(timerSeq + 1, timerSeq + 1, timeout)}]
  /\ UNCHANGED <<loopVars, userVars, histVars, http, sock, fd2http, acceptVars,
                 timeVars, touchLog>>

\* HttpData::seperateTimer -> TimerNode::clearReq
Detach(r) ==
  /\ \E n \in timerQ[r] :
       /\ ~n.deleted
       /\ timerQ' = [timerQ EXCEPT ![r] = ClearReq(@, n.id)]
  /\ UNCHANGED <<loopVars, userVars, histVars, http, sock, fd2http, timerSeq,
                 acceptVars, timeVars, touchLog>>

\* TimerManager::handleExpiredEvent, when it has a node to pop
HandleExpired(r) ==
  /\ Reap(timerQ[r], now) # timerQ[r]
  /\ timerQ' = [timerQ EXCEPT ![r] = Reap(@, now)]
  /\ popLog' = [popLog EXCEPT ![r] = @ \o Popped(timerQ[r], now)]
  /\ UNCHANGED <<loopVars, userVars, appendLog, runLog, callLog, http, sock,
                 fd2http, timerSeq, acceptVars, timeVars, touchLog>>

NextTimer ==
  \/ AddTimer(LoopUnderTest)
  \/ Detach(LoopUnderTest)
  \/ HandleExpired(LoopUnderTest)
  \/ Tick

SpecTimer == InitTimer /\ [][NextTimer]_vars

\* ------------------------------------------------------- starting the pool
\* Server::start from its first statement: the base loop and the listening
\* socket exist, no worker thread has been started, and the main thread has
\* not called loop() yet. Peers may connect already; they stay silent.
MaxStartConns == 2

InitStart ==
  /\ pc = [r \in Reactors |-> IF r = BaseLoop THEN "start" ELSE "off"]
  /\ iter = [r \in Reactors |-> 0]
  /\ ret = [r \in Reactors |-> <<>>]
  /\ pendingFunctors = [r \in Reactors |-> <<>>]
  /\ functors = [r \in Reactors |-> <<>>]
  /\ callingPendingFunctors = [r \in Reactors |-> FALSE]
  /\ quit = [r \in Reactors |-> FALSE]
  /\ efdCount = [r \in Reactors |-> 0]
  /\ kreg = [r \in Reactors |-> [fd \in Fds |->
        IF r = BaseLoop /\ fd = WakeCh(r)
          THEN Registered({EPOLLIN, EPOLLET}) ELSE Unregistered]]
  /\ krdy = [r \in Reactors |-> <<>>]
  /\ fd2chan = [r \in Reactors |-> [fd \in Fds |->
        IF r = BaseLoop /\ fd = WakeCh(r) THEN WakeCh(r) ELSE NoChan]]
  /\ chEvents = [ch \in Channels |->
        IF ch = WakeCh(BaseLoop) THEN {EPOLLIN, EPOLLET} ELSE {}]
  /\ chLast = [ch \in Channels |->
        IF ch = WakeCh(BaseLoop) THEN {EPOLLIN, EPOLLET} ELSE {}]
  /\ chRevents = [ch \in Channels |-> {}]
  /\ midQueue = [t \in Threads |-> NoThread]
  /\ usrCount = 0
  /\ usrEdges = 0
  /\ nextTask = 1
  /\ appendLog = [r \in Reactors |-> <<>>]
  /\ runLog = [r \in Reactors |-> <<>>]
  /\ loop_ = [w \in Workers |-> NoThread]
  /\ loops_ = <<>>
  /\ NoConnections

\* The worker EventLoopThreadPool::start is at: loops_ has one entry per
\* startLoop call that has returned.
Starting == Len(loops_) + 1

\* EventLoopThread::startLoop, thread_.start(): threadFunc begins to run on
\* the new thread.
ThreadStart(w) ==
  /\ pc[BaseLoop] = "start"
  /\ w = Starting
  /\ pc[w] = "off"
  /\ pc' = [pc EXCEPT ![w] = "started"]
  /\ UNCHANGED <<iter, ret, pendingFunctors, functors, callingPendingFunctors,
                 quit, efdCount, kreg, krdy, fd2chan, chEvents, chLast,
                 chRevents, midQueue>>
  /\ UNCHANGED <<userVars, histVars, serverVars>>

\* threadFunc, `EventLoop loop;`: the constructor creates the eventfd and
\* registers the wakeup channel with the new poller.
Construct(w) ==
  /\ pc[w] = "started"
  /\ pc' = [pc EXCEPT ![w] = "constructed"]
  /\ chEvents' = [chEvents EXCEPT ![WakeCh(w)] = {EPOLLIN, EPOLLET}]
  /\ chLast' = [chLast EXCEPT ![WakeCh(w)] = {EPOLLIN, EPOLLET}]
  /\ fd2chan' = [fd2chan EXCEPT ![w][ChFd(WakeCh(w))] = WakeCh(w)]
  /\ kreg' = [kreg EXCEPT ![w][ChFd(WakeCh(w))] = Registered({EPOLLIN, EPOLLET})]
  /\ UNCHANGED <<iter, ret, pendingFunctors, functors, callingPendingFunctors,
                 quit, efdCount, krdy, chRevents, midQueue>>
  /\ UNCHANGED <<userVars, histVars, serverVars>>

\* threadFunc, under the mutex: loop_ = &loop and cond_.notify(). The next
\* statement of the thread is loop.loop().
Publish(w) ==
  /\ pc[w] = "constructed"
  /\ loop_' = [loop_ EXCEPT ![w] = w]
  /\ pc' = [pc EXCEPT ![w] = "created"]
  /\ UNCHANGED <<iter, ret, pendingFunctors, functors, callingPendingFunctors,
                 quit, efdCount, kreg, krdy, fd2chan, chEvents, chLast,
                 chRevents, midQueue>>
  /\ UNCHANGED <<userVars, histVars, connVars, acceptQ, nconn, held, next_,
                 assignLog, loops_, timeVars, touchLog>>

\* startLoop leaves `while (loop_ == NULL) cond_.wait()` and returns loop_,
\* which EventLoopThreadPool::start pushes onto loops_.
StartLoopReturn_NoWait(w) ==
  /\ pc[BaseLoop] = "start"
  /\ w = Starting
  /\ pc[w] # "off"
  /\ loops_' = Append(loops_, loop_[w])
  /\ UNCHANGED <<loopVars, userVars, histVars, connVars, acceptQ, nconn, held,
                 next_, assignLog, loop_, timeVars, touchLog>>
StartLoopReturn(w) ==
  /\ pc[BaseLoop] = "start"
  /\ w = Starting
  /\ pc[w] # "off"
  /\ loop_[w] # NoThread
  /\ loops_' = Append(loops_, loop_[w])
  /\ UNCHANGED <<loopVars, userVars, histVars, connVars, acceptQ, nconn, held,
                 next_, assignLog, loop_, timeVars, touchLog>>

\* The rest of Server::start once the pool has started: the acceptor's
\* channel is added to the base loop's poller, which reports a connection
\* that is waiting already. The main thread's next statement is loop().
AcceptorStart ==
  /\ pc[BaseLoop] = "start"
  /\ Len(loops_) = NumWorkers
  /\ pc' = [pc EXCEPT ![BaseLoop] = "created"]
  /\ chEvents' = [chEvents EXCEPT ![ListenCh] = {EPOLLIN, EPOLLET}]
  /\ chLast' = [chLast EXCEPT ![ListenCh] = {EPOLLIN, EPOLLET}]
  /\ fd2chan' = [fd2chan EXCEPT ![BaseLoop][ListenFd] = ListenCh]
  /\ LET reg == [kreg EXCEPT ![BaseLoop][ListenFd] = Registered({EPOLLIN, EPOLLET})]
     IN /\ kreg' = reg
        /\ krdy' = EdgeOn(krdy, reg, BaseLoop, ListenFd, PollMask(ListenFd))
  /\ UNCHANGED <<iter, ret, pendingFunctors, functors, callingPendingFunctors,
                 quit, efdCount, chRevents, midQueue>>
  /\ UNCHANGED <<userVars, histVars, serverVars>>

NextStart ==
  \/ \E w \in Workers : ThreadStart(w)
  \/ \E w \in Workers : Construct(w)
  \/ \E w \in Workers : Publish(w)
  \/ \E w \in Workers : StartLoopReturn(w)
  \/ AcceptorStart
  \/ \E r \in Reactors : ServerStep(r)
  \/ PeerConnect(MaxStartConns, {<<>>}, {Unlimited})

SpecStart == InitStart /\ [][NextStart]_vars

\* ------------------------------------------------------ stopping a worker
\* ~EventLoopThread called by the main thread once Server::start is done:
\* it finds loop_ set, calls loop_->quit() (quit_ = true and, not being the
\* loop's thread, wakeup()), and waits in thread_.join().
QuitWorker(w) ==
  /\ pc[BaseLoop] = "created"
  /\ loop_[w] # NoThread
  /\ pc' = [pc EXCEPT ![BaseLoop] = "joining"]
  /\ quit' = [quit EXCEPT ![loop_[w]] = TRUE]
  /\ efdCount' = WakeupCount(efdCount, loop_[w])
  /\ krdy' = EdgeOn(krdy, kreg, loop_[w], ChFd(WakeCh(loop_[w])), {EPOLLIN})
  /\ UNCHANGED <<iter, ret, pendingFunctors, functors, callingPendingFunctors,
                 kreg, fd2chan, chEvents, chLast, chRevents, midQueue>>
  /\ UNCHANGED <<userVars, histVars, serverVars>>

\* threadFunc after loop.loop() has returned: loop_ = NULL, and the thread
\* ends.
ThreadReturn(w) ==
  /\ pc[w] = "exited"
  /\ pc' = [pc EXCEPT ![w] = "finished"]
  /\ loop_' = [loop_ EXCEPT ![w] = NoThread]
  /\ UNCHANGED <<iter, ret, pendingFunctors, functors, callingPendingFunctors,
                 quit, efdCount, kreg, krdy, fd2chan, chEvents, chLast,
                 chRevents, midQueue>>
  /\ UNCHANGED <<userVars, histVars, connVars, acceptQ, nconn, held, next_,
                 assignLog, loops_, timeVars, touchLog>>

\* thread_.join() returns to the main thread.
JoinReturn(w) ==
  /\ pc[BaseLoop] = "joining"
  /\ pc[w] = "finished"
  /\ pc' = [pc EXCEPT ![BaseLoop] = "joined"]
  /\ UNCHANGED <<iter, ret, pendingFunctors, functors, callingPendingFunctors,
                 quit, efdCount, kreg, krdy, fd2chan, chEvents, chLast,
                 chRevents, midQueue>>
  /\ UNCHANGED <<userVars, histVars, serverVars>>

\* One step of the thread of worker w, from threadFunc's first statement to
\* its last.
WorkerThread(w) ==
  \/ Construct(w)
  \/ Publish(w)
  \/ LoopEnter(w)
  \/ Poll(w)
  \/ DispatchWake(w)
  \/ SwapFunctors(w)
  \/ EndIteration(w)
  \/ ThreadReturn(w)

\* The pool is started and the first worker may be told to stop; peers may
\* connect meanwhile and are not served, the main thread being busy.
NextQuit ==
  \/ \E w \in Workers : ThreadStart(w)
  \/ \E w \in Workers : StartLoopReturn(w)
  \/ AcceptorStart
  \/ \E w \in Workers : WorkerThread(w)
  \/ QuitWorker(LoopUnderTest)
  \/ JoinReturn(LoopUnderTest)
  \/ PeerConnect(MaxStartConns, {<<>>}, {Unlimited})

SpecQuit == InitStart /\ [][NextQuit]_vars

\* Every worker thread keeps being scheduled.
FairSpecQuit == SpecQuit /\ \A w \in Workers : WF_vars(WorkerThread(w))

\* ------------------------------------------------- the header parser alone
\* HttpData::parseHeaders as handleRead calls it: a connection whose request
\* line has been parsed receives a header block in one read or in two, the
\* split point being any byte of the block.
EmptyKeyLine == <<":", " ", "a", ":", " ", "b">>
EmptyValueLine == <<"H", "o", "s", "t", ":", " ">>
Block(lines) == lines \o CRLF \o CRLF
GoodBlocks ==
  {Block(HostLine), Block(KeepAliveLine \o CRLF \o HostLine)}
EmptyKeyBlocks ==
  {Block(<<":", " ", "x">>), Block(EmptyKeyLine),
   Block(HostLine \o CRLF \o EmptyKeyLine)}
EmptyValueBlocks ==
  {Block(EmptyValueLine), Block(EmptyValueLine \o CRLF \o KeepAliveLine)}
HeaderBlocks ==
  GoodBlocks \cup EmptyKeyBlocks \cup EmptyValueBlocks
    \cup {Block(<<"H", "o", "s", "t">>)}

\* Connection 1 is the object h on the loop under test; its peer is about to
\* send one of the scripts.
InitParser(h, scripts) ==
  /\ LoopsConstructed
  /\ http = [c \in Conns |-> IF c = 1 THEN h ELSE HttpData(NoThread, FALSE)]
  /\ \E script \in scripts :
       sock = [c \in Conns |->
          IF c = 1 THEN [NoSock EXCEPT !.st = "open", !.fd = 1, !.script = script]
          ELSE NoSock]
  /\ fd2http = [r \in Reactors |-> [fd \in Fds |-> NoConn]]
  /\ timerQ = [r \in Reactors |-> {}]
  /\ timerSeq = 0
  /\ acceptQ = <<>>
  /\ nconn = 1
  /\ held = NoConn
  /\ next_ = 1
  /\ assignLog = <<[loop |-> LoopUnderTest, conn |-> 1, admitted |-> TRUE]>>
  /\ touchLog = {}
  /\ envCount = 0
  /\ popLog = [r \in Reactors |-> <<>>]
  /\ callLog = [c \in Conns |-> <<>>]
  /\ now = 0

InitHeaders ==
  InitParser(Move(HttpData(LoopUnderTest, TRUE), "STATE_PARSE_HEADERS"),
             HeaderBlocks)

\* The sizes of the next read: any first part, then all that is left.
FeedSizes(s) == IF s.segs = 0 THEN 1..Len(s.script) ELSE {Len(s.script)}

\* The socket once the next n bytes of the script have arrived.
Arrived(s, n) ==
  [s EXCEPT !.rcv = @ \o SubSeq(s.script, 1, n),
            !.sent = @ \o SubSeq(s.script, 1, n),
            !.script = SubSeq(@, n + 1, Len(@)),
            !.segs = @ + 1]

\* handleRead up to and including its STATE_PARSE_HEADERS case, on the next
\* bytes of the block.
FeedHeaders(c) ==
  /\ http[c].made
  /\ http[c].state = "STATE_PARSE_HEADERS"
  /\ ~http[c].error
  /\ sock[c].script # <<>>
  /\ \E n \in FeedSizes(sock[c]) :
       \E x \in {Then(HeaderStage,
                   Then(ReadStage, [h |-> http[c], s |-> Arrived(sock[c], n),
                                    ev |-> {}, calls |-> <<>>]))} :
          /\ http' = [http EXCEPT ![c] = x.k.h]
          /\ sock' = [sock EXCEPT ![c] = x.k.s]
  /\ UNCHANGED <<loopVars, userVars, histVars, fd2http, timerQ, timerSeq,
                 acceptVars, timeVars, touchLog>>

NextHeaders == FeedHeaders(1)

SpecHeaders == InitHeaders /\ [][NextHeaders]_vars

\* --------------------------------------------- the request-line parser alone
\* HttpData::parseURI as handleRead calls it on a new connection: the request
\* line, whose target may itself be a method token, arrives complete in one
\* read; the header block follows in a second read.
UriMethods == {S_GET, S_POST, S_HEAD, S_PUT}
UriTargets == {S_hello, S_index, S_GET, S_POST, S_HEAD}
UriScripts ==
  {Request(m, t, v, HostLine) :
     m \in UriMethods, t \in UriTargets, v \in {S_V10, S_V11}}

InitUri == InitParser(HttpData(LoopUnderTest, TRUE), UriScripts)

\* The number of bytes up to and including the first line feed.
LineLen(script) == Find(script, <<LF>>, 0) + 1

\* handleRead up to and including its STATE_PARSE_URI case, on the request
\* line and its CR LF.
FeedLine(c) ==
  /\ http[c].made
  /\ http[c].state = "STATE_PARSE_URI"
  /\ ~http[c].error
  /\ sock[c].segs = 0
  /\ \E x \in {Then(UriStage,
                  Then(ReadStage,
                       [h |-> http[c],
                        s |-> Arrived(sock[c], LineLen(sock[c].script)),
                        ev |-> {}, calls |-> <<>>]))} :
       /\ http' = [http EXCEPT ![c] = x.k.h]
       /\ sock' = [sock EXCEPT ![c] = x.k.s]
  /\ UNCHANGED <<loopVars, userVars, histVars, fd2http, timerQ, timerSeq,
                 acceptVars, timeVars, touchLog>>

NextUri == FeedLine(1) \/ FeedHeaders(1)

SpecUri == InitUri /\ [][NextUri]_vars

\* ---------------------------------------------------------------- history
Appended(r, k) == \E i \in 1..Len(appendLog[r]) : appendLog[r][i].task = UserTask(k)
Ran(r, k) == \E i \in 1..Len(runLog[r]) : runLog[r][i].task = UserTask(k)
AppendEntry(r, k) ==
  appendLog[r][CHOOSE i \in 1..Len(appendLog[r]) : appendLog[r][i].task = UserTask(k)]
RunEntry(r, k) ==
  runLog[r][CHOOSE i \in 1..Len(runLog[r]) : runLog[r][i].task = UserTask(k)]
TaskIds == 1..MaxTasks

\* C1: every task handed to queueInLoop by any thread once the loop is
\* published (before its first iteration, while it is blocked in poll, or at
\* any other time) is eventually executed, exactly once, by the loop's own
\* thread: no wakeup is lost.
C1_NoLostWakeup ==
  /\ [](\A i, j \in 1..Len(runLog[LoopUnderTest]) :
          runLog[LoopUnderTest][i].task = runLog[LoopUnderTest][j].task => i = j)
  /\ [](\A i \in 1..Len(runLog[LoopUnderTest]) :
          /\ runLog[LoopUnderTest][i].by = LoopUnderTest
          /\ \E j \in 1..Len(appendLog[LoopUnderTest]) :
                appendLog[LoopUnderTest][j].task = runLog[LoopUnderTest][i].task)
  /\ \A k \in TaskIds : Appended(LoopUnderTest, k) ~> Ran(LoopUnderTest, k)

\* A task appended by another thread before the first iteration and one
\* appended by another thread while the loop was blocked in poll have both run.
C1_Witness ==
  \E a, b \in TaskIds :
    /\ Ran(LoopUnderTest, a) /\ Ran(LoopUnderTest, b)
    /\ AppendEntry(LoopUnderTest, a).phase = "created"
    /\ AppendEntry(LoopUnderTest, a).by # LoopUnderTest
    /\ AppendEntry(LoopUnderTest, b).phase = "poll"
    /\ AppendEntry(LoopUnderTest, b).by # LoopUnderTest

\* C2: tasks run in the order in which they were appended, whatever threads
\* appended them, and a task appended while the loop dispatches channel
\* handlers runs in a drain, after the dispatch batch it was appended in.
C2_FifoAfterBatch ==
  /\ Len(runLog[LoopUnderTest]) <= Len(appendLog[LoopUnderTest])
  /\ \A i \in 1..Len(runLog[LoopUnderTest]) :
       /\ runLog[LoopUnderTest][i].task = appendLog[LoopUnderTest][i].task
       /\ appendLog[LoopUnderTest][i].phase = "dispatch"
            => /\ runLog[LoopUnderTest][i].phase = "run"
               /\ runLog[LoopUnderTest][i].iter >= appendLog[LoopUnderTest][i].iter

\* Two tasks appended by different threads have run, one of them appended
\* during a dispatch batch.
C2_Witness ==
  /\ Len(runLog[LoopUnderTest]) >= 2
  /\ appendLog[LoopUnderTest][1].by # appendLog[LoopUnderTest][2].by
  /\ \E i \in 1..2 : appendLog[LoopUnderTest][i].phase = "dispatch"

\* C3: a task appended while the loop runs its swapped-out functors (by a
\* running task or by another thread) is not executed in that drain but in
\* the drain of a later iteration.
C3_NextDrain ==
  \A k \in TaskIds :
    (Ran(LoopUnderTest, k) /\ AppendEntry(LoopUnderTest, k).phase = "run")
      => RunEntry(LoopUnderTest, k).iter > AppendEntry(LoopUnderTest, k).iter

\* A task appended by a running task during a drain has run.
C3_Witness ==
  \E k \in TaskIds :
    /\ Ran(LoopUnderTest, k)
    /\ AppendEntry(LoopUnderTest, k).phase = "run"
    /\ AppendEntry(LoopUnderTest, k).by = LoopUnderTest

\* -------------------------------------------------------------- connections
\* C4: once the acceptor has handed a connection over, every operation on the
\* connection's registration, on its Reactor's registries and timer queue,
\* and every handler call on it, is made by the thread of the Reactor that
\* owns it.
C4_OwnerThreadOnly == \A x \in touchLog : x.by = x.owner

C4_Witness ==
  \E a \in touchLog, d \in touchLog, e \in touchLog :
    /\ a.op = "add" /\ d.op = "dispatch" /\ e.op = "expire"
    /\ a.owner \in Workers /\ d.owner = a.owner /\ e.owner = a.owner

\* The connections the admission check let in, in the order of accept.
Admitted == SelectSeq(assignLog, LAMBDA e : e.admitted)
AssignedIn(lo, n, w) ==
  Cardinality({j \in lo..(lo + n - 1) : Admitted[j].loop = w})

\* C5: with N worker Reactors, over any window of N*k consecutive accepted
\* connections each worker Reactor is assigned exactly k of them.
C5_RoundRobin ==
  \A k \in 1..MaxConns, lo \in 1..MaxConns :
    lo + NumWorkers * k - 1 <= Len(Admitted)
      => \A w \in Workers : AssignedIn(lo, NumWorkers * k, w) = k

\* C6 as stated: the descriptor of every connection state is open if and
\* only if its phase is not Disconnected.
C6_OpenIffNotDisconnected ==
  \A c \in Conns :
    http[c].made => (sock[c].st = "open" <=> http[c].cstate # "H_DISCONNECTED")

\* C6: a closed descriptor belongs to a Disconnected connection, and a
\* Disconnected connection whose descriptor is still open is one the acceptor
\* still holds a reference to.
C6_ClosedWithLastReference ==
  \A c \in Conns :
    http[c].made =>
      /\ sock[c].st = "closed" => http[c].cstate = "H_DISCONNECTED"
      /\ http[c].cstate = "H_DISCONNECTED" /\ sock[c].st = "open" => held = c

C6_Witness ==
  \E c \in Conns :
    /\ http[c].made /\ ~http[c].live
    /\ http[c].cstate = "H_DISCONNECTED" /\ sock[c].st = "closed"
    /\ sock[c].wire # <<>> /\ held = NoConn

\* The connections that exist when the peers open MaxTraffic of them.
TrafficConns == 1..MaxTraffic

\* A live keep-alive connection is idle, nothing to read and nothing left to
\* write, and its timer has run out.
Overdue(c) ==
  /\ http[c].live /\ http[c].keepAlive /\ http[c].outBuffer = <<>>
  /\ sock[c].rcv = <<>> /\ ~sock[c].fin /\ ~sock[c].rst
  /\ \E n \in timerQ[http[c].loop] : n.conn = c /\ ~IsValid(n, now)

\* C7: a keep-alive connection that stays idle beyond its timeout is
\* eventually closed, whatever else its Reactor does.
C7_IdleClosed ==
  \A c \in TrafficConns : Overdue(c) ~> (sock[c].st = "closed" \/ ~Overdue(c))

\* C8: every connection that has entered Disconnecting eventually reaches
\* Disconnected with its descriptor closed.
C8_DisconnectingCloses ==
  \A c \in TrafficConns :
    (http[c].cstate = "H_DISCONNECTING")
      ~> (http[c].cstate = "H_DISCONNECTED" /\ sock[c].st = "closed")

\* The peer of c sent exactly req, in one segment, and the read handler has
\* taken it; nothing else happened on the connection and no time has passed.
Served(c, req) ==
  /\ http[c].made
  /\ sock[c].sent = req /\ sock[c].segs = 1 /\ sock[c].rcv = <<>>
  /\ ~sock[c].fin /\ ~sock[c].rst /\ ~sock[c].nospace /\ sock[c].snd = Unlimited
  /\ now = 0

\* C9: two keep-alive requests arriving in one read are answered by two
\* successful responses in order, and the connection stays open.
C9_PipelinedPair ==
  \A c \in Conns :
    Served(c, HelloKeepAlive \o HelloKeepAlive) =>
      /\ sock[c].wire = HelloResponse \o HelloResponse
      /\ sock[c].st = "open" /\ http[c].cstate = "H_CONNECTED"

\* C10: GET /hello HTTP/1.1 followed at once by the empty line is answered
\* with the Hello World response in the read that delivered it; the
\* connection does not wait in the header state.
C10_BareRequest ==
  \A c \in Conns :
    Served(c, HelloBare) =>
      /\ sock[c].wire = HelloResponse
      /\ http[c].state # "STATE_PARSE_HEADERS"

\* ------------------------------------------------------- the request parser
\* The bytes the peer of connection c has sent hold no carriage return and
\* the read handler has taken them all.
ReadWithoutCR(c) ==
  /\ http[c].made
  /\ sock[c].sent # <<>> /\ sock[c].rcv = <<>>
  /\ ~sock[c].fin /\ ~sock[c].rst
  /\ \A i \in 1..Len(sock[c].sent) : sock[c].sent[i] # CR

\* C11: while the bytes received hold no carriage return the request-line
\* parser asks for more: the state stays STATE_PARSE_URI, no target is set,
\* no error is raised and nothing is written to the peer.
C11_NeedMoreWithoutCR ==
  \A c \in TrafficConns :
    ReadWithoutCR(c) =>
      /\ http[c].state = "STATE_PARSE_URI"
      /\ http[c].fileName = <<>>
      /\ ~http[c].error
      /\ sock[c].wire = <<>>

\* C12: errors do not cross connections: whatever bytes a connection
\* receives, no exception leaves a handler, so the loop's thread and the
\* process keep running.
C12_ErrorsContained == \A c \in Conns : ~http[c].threw

\* The page HttpData::handleError writes.
ErrorPage(num, msg) == ErrorHeader(num, msg) \o <<ErrorBody(num, msg)>>

\* Requests with a parse error: in the request line, in the version, in a
\* header line, in the length of a header value, and a POST without
\* Content-length.
ParseErrorRequests ==
  {BadMethod, BadVersion, BadHeader, BadThenGood, PostNoLength,
   LongValue(MaxValueLen + 2)}

\* Connection c was answered with one 400 page and closed: its error flag is
\* set, it is H_DISCONNECTED and its descriptor has left the poller and the
\* registries of its loop.
Unregistered400(c) ==
  /\ http[c].error
  /\ sock[c].wire \in {ErrorPage("400", "Bad Request"),
                       ErrorPage("400", "Bad Request: Lack of argument (Content-length)")}
  /\ http[c].cstate = "H_DISCONNECTED"
  /\ ~kreg[http[c].loop][sock[c].fd].reg
  /\ fd2chan[http[c].loop][sock[c].fd] # c
  /\ fd2http[http[c].loop][sock[c].fd] # c
  /\ \A i \in 1..Len(krdy[http[c].loop]) : krdy[http[c].loop][i] # sock[c].fd

C14_ValueLimit ==
  \A c \in TrafficConns : \A n \in ValueLens :
    Served(c, LongValue(n)) =>
      /\ http[c].error <=> n > MaxValueLen
      /\ (sock[c].wire = ErrorPage("400", "Bad Request")) <=> n > MaxValueLen

ResponseTo(req) ==
  HandleRead([h |-> HttpData(1, TRUE),
              s |-> [NoSock EXCEPT !.st = "open", !.fd = 1, !.rcv = req],
              ev |-> {}, calls |-> <<>>]).s.wire
HeaderBlock(resp) ==
  LET ends == {i \in 1..Len(resp) : resp[i] = ""}
  IN IF ends = {} THEN resp
     ELSE SubSeq(resp, 1, CHOOSE i \in ends : \A j \in ends : i <= j)

\* C16: for every target, hello and favicon.ico included, what a HEAD
\* request is answered with is the header block of the answer to the GET
\* request for the same target, and no body.
C16_HeadLikeGet ==
  \A c \in TrafficConns : \A t \in Targets :
    Served(c, Plain(S_HEAD, t)) =>
      sock[c].wire = HeaderBlock(ResponseTo(Plain(S_GET, t)))

\* C17: the expiries of the nodes a timer heap pops, those a detach had
\* cancelled left out, never decrease in pop order, also when the reduced
\* clock wraps between pushes.
C17_PopOrder ==
  \A r \in Reactors : \A i, j \in 1..Len(popLog[r]) :
    i < j => popLog[r][i] <= popLog[r][j]

\* C18: in every poller each registered descriptor has exactly one registry
\* entry, a Channel whose descriptor is the index; a descriptor that is not
\* registered has no entry; and an entry for a connection is for the open,
\* not disconnected connection that owns the descriptor number now, never
\* for an earlier owner of the number.
C18_RegistryExact ==
  \A r \in Reactors : \A fd \in Fds :
    /\ kreg[r][fd].reg =>
         fd2chan[r][fd] # NoChan /\ ChFd(fd2chan[r][fd]) = fd
    /\ ~kreg[r][fd].reg => fd2chan[r][fd] = NoChan
    /\ fd2chan[r][fd] \in Conns =>
         /\ sock[fd2chan[r][fd]].st = "open"
         /\ http[fd2chan[r][fd]].live
         /\ http[fd2chan[r][fd]].loop = r
         /\ http[fd2chan[r][fd]].cstate # "H_DISCONNECTED"
         /\ FdConn(fd) = fd2chan[r][fd]

\* A descriptor number that an earlier, closed connection had is registered
\* for a later connection with the same poller.
C18_Witness ==
  \E r \in Reactors : \E a, b \in Conns :
    /\ a < b
    /\ sock[a].st = "closed" /\ sock[b].st = "open"
    /\ sock[a].fd = sock[b].fd
    /\ http[a].loop = r /\ http[b].loop = r
    /\ kreg[r][sock[b].fd].reg
    /\ fd2chan[r][sock[b].fd] = b

\* Connection c has been reported by its poller and the dispatch of the last
\* report has returned.
Dispatched(c) ==
  /\ http[c].made
  /\ chRevents[c] # {}
  /\ \A i \in 1..Len(ret[http[c].loop]) : ret[http[c].loop][i] # c

\* C19: once the dispatch of a readiness notification for a connection has
\* returned, whatever the reported mask was, either the Channel's interest
\* mask is not empty and is the mask registered with the kernel, or the
\* connection is unregistered and H_DISCONNECTED.
C19_MaskOrClosed ==
  \A c \in TrafficConns :
    Dispatched(c) =>
      \/ /\ chEvents[c] # {}
         /\ kreg[http[c].loop][sock[c].fd].reg
         /\ kreg[http[c].loop][sock[c].fd].ev = chEvents[c]
      \/ /\ fd2chan[http[c].loop][sock[c].fd] # c
         /\ ~kreg[http[c].loop][sock[c].fd].reg
         /\ http[c].cstate = "H_DISCONNECTED"

\* C20: one dispatch calls the handlers in a fixed order: with hang-up and
\* no readable bit none, and the interest mask is left empty; otherwise with
\* the error bit only the error handler (none is installed); otherwise the
\* read handler if readable, priority-readable or peer-closed-write is set,
\* then the write handler if writable is set, then the connection handler,
\* once.
C20_DispatchOrder ==
  \A c \in TrafficConns :
    Dispatched(c) =>
      IF EPOLLHUP \in chRevents[c] /\ EPOLLIN \notin chRevents[c]
        THEN callLog[c] = <<>> /\ chEvents[c] = {}
      ELSE IF EPOLLERR \in chRevents[c]
        THEN callLog[c] = IF HasErrorHandler THEN <<"error">> ELSE <<>>
      ELSE callLog[c] =
             (IF chRevents[c] \cap {EPOLLIN, EPOLLPRI, EPOLLRDHUP} # {}
                THEN <<"read">> ELSE <<>>)
             \o (IF EPOLLOUT \in chRevents[c] THEN <<"write">> ELSE <<>>)
             \o <<"conn">>

\* A dispatch for a mask with the readable and the writable bit has called
\* the read handler, the write handler and the connection handler.
C20_Witness ==
  \E c \in TrafficConns :
    /\ Dispatched(c)
    /\ {EPOLLIN, EPOLLOUT} \subseteq chRevents[c]
    /\ chRevents[c] \cap {EPOLLHUP, EPOLLERR} = {}
    /\ callLog[c] = <<"read", "write", "conn">>
    /\ sock[c].wire = HelloResponse

\* -------------------------------------------------------- wakeup decision
\* One queueInLoop call made by the loop's own thread in this step.
OwnAppendStep(r) ==
  /\ Len(appendLog'[r]) = Len(appendLog[r]) + 1
  /\ appendLog'[r][Len(appendLog'[r])].by = r

\* The second half of a queueInLoop call made by another thread in this step.
ForeignDecisionStep(r) ==
  \E t \in Threads : midQueue[t] = r /\ midQueue'[t] = NoThread

\* This step writes the loop's wakeup descriptor once.
WakeupWritten(r) == efdCount'[r] = efdCount[r] + 1

\* C21: queueInLoop writes the wakeup descriptor exactly when the caller is
\* not the loop's thread or the loop is running its functors; a task the
\* loop's thread appends while it dispatches handlers causes no write and has
\* run, in the drain of the same iteration, by the time that iteration ends.
C21_WakeupIff ==
  /\ [][/\ OwnAppendStep(LoopUnderTest) =>
             (WakeupWritten(LoopUnderTest) <=> callingPendingFunctors[LoopUnderTest])
        /\ ForeignDecisionStep(LoopUnderTest) => WakeupWritten(LoopUnderTest)
        /\ WakeupWritten(LoopUnderTest) =>
             OwnAppendStep(LoopUnderTest) \/ ForeignDecisionStep(LoopUnderTest)]_vars
  /\ [](\A k \in TaskIds :
          (/\ Appended(LoopUnderTest, k)
           /\ AppendEntry(LoopUnderTest, k).by = LoopUnderTest
           /\ AppendEntry(LoopUnderTest, k).phase = "dispatch")
          => /\ Ran(LoopUnderTest, k) =>
                  RunEntry(LoopUnderTest, k).iter = AppendEntry(LoopUnderTest, k).iter
             /\ (\/ iter[LoopUnderTest] > AppendEntry(LoopUnderTest, k).iter
                 \/ pc[LoopUnderTest] \in {"poll", "exited"})
                  => Ran(LoopUnderTest, k))

\* The loop's thread appended one task from a handler, without a wakeup write,
\* and that task, run in the same iteration, appended a second one, with a
\* write; no other thread wrote.
C21_Witness ==
  \E a, b \in TaskIds :
    /\ Ran(LoopUnderTest, a)
    /\ AppendEntry(LoopUnderTest, a).phase = "dispatch"
    /\ AppendEntry(LoopUnderTest, a).by = LoopUnderTest
    /\ RunEntry(LoopUnderTest, a).iter = AppendEntry(LoopUnderTest, a).iter
    /\ Appended(LoopUnderTest, b)
    /\ AppendEntry(LoopUnderTest, b).phase = "run"
    /\ AppendEntry(LoopUnderTest, b).by = LoopUnderTest
    /\ efdCount[LoopUnderTest] = 1

\* ------------------------------------------------------ publishing a loop
\* The loop of worker w has been entered: its thread is inside loop().
LoopEntered(w) == pc[w] \in {"poll", "dispatch", "run"}

\* C22: whenever the pointer to a worker's loop is visible to the launching
\* thread (loop_ is set, or startLoop has returned it into loops_) that loop
\* is constructed and has been entered; startLoop never returns NULL.
C22_PublishedRunning ==
  /\ \A i \in 1..Len(loops_) : loops_[i] # NoThread
  /\ \A w \in Workers :
       (loop_[w] # NoThread \/ \E i \in 1..Len(loops_) : loops_[i] = w)
         => LoopEntered(w)

\* The loop of worker w is constructed: its wakeup channel is registered
\* with its poller.
LoopConstructed(w) ==
  /\ pc[w] \notin {"off", "started"}
  /\ kreg[w][ChFd(WakeCh(w))].reg
  /\ fd2chan[w][ChFd(WakeCh(w))] = WakeCh(w)

\* C22, as the code has it: whenever the pointer to a worker's loop is
\* visible to the launching thread that loop is constructed (it need not
\* have been entered yet); startLoop never returns NULL, and the i-th call
\* returns the loop of the i-th worker.
C22_PublishedConstructed ==
  /\ \A i \in 1..Len(loops_) : loops_[i] = i /\ loop_[i] = i
  /\ \A w \in Workers : loop_[w] # NoThread => LoopConstructed(w)

\* Every startLoop call has returned while the loop it returned has not been
\* entered yet.
C22_Witness ==
  /\ Len(loops_) = NumWorkers
  /\ \E w \in Workers : loops_[w] = w /\ pc[w] = "created"

\* ---------------------------------------------------- top-level parse state
\* The changes of state_ the order of the states allows, with the condition
\* under which STATE_RECV_BODY may be left.
AllowedMove(m) ==
  \/ m.from = "STATE_PARSE_URI" /\ m.to = "STATE_PARSE_HEADERS"
  \/ /\ m.from = "STATE_PARSE_HEADERS" /\ m.to = "STATE_ANALYSIS"
     /\ m.method \in {"GET", "HEAD"}
  \/ /\ m.from = "STATE_PARSE_HEADERS" /\ m.to = "STATE_RECV_BODY"
     /\ m.method = "POST"
  \/ /\ m.from = "STATE_RECV_BODY" /\ m.to = "STATE_ANALYSIS"
     /\ m.cl # <<>>
     /\ Stoi(m.cl).ok
     /\ m.len >= Stoi(m.cl).val
  \/ m.from = "STATE_ANALYSIS" /\ m.to = "STATE_FINISH"
  \/ m.from = "STATE_FINISH" /\ m.to = "STATE_PARSE_URI"

\* C23: every change of a connection's top-level parse state, within one
\* read-handler call or across calls, is one of: request line -> headers,
\* headers -> analysis (GET, HEAD) or -> body (POST), body -> analysis with at
\* least the declared Content-length in the buffer, analysis -> finished,
\* finished -> request line; and between handler calls the state is never
\* STATE_FINISH.
C23_StateOrder ==
  \A c \in Conns :
    /\ \A m \in http[c].moves : AllowedMove(m)
    /\ http[c].state # "STATE_FINISH"

\* A POST whose body arrived in a later segment than its header block waited
\* in STATE_RECV_BODY and left it with the declared length in the buffer.
C23_Witness ==
  \E c \in Conns :
    /\ sock[c].sent = PostBody
    /\ sock[c].segs >= 2
    /\ {<<m.from, m.to>> : m \in http[c].moves} =
         {<<"STATE_PARSE_URI", "STATE_PARSE_HEADERS">>,
          <<"STATE_PARSE_HEADERS", "STATE_RECV_BODY">>,
          <<"STATE_RECV_BODY", "STATE_ANALYSIS">>}
    /\ \E m \in http[c].moves : m.from = "STATE_RECV_BODY" /\ Stoi(m.cl).val > 0
\* ------------------------------------------------------ the header parser
\* What parseHeaders makes of a header block that one read delivers whole.
OneRead(block) == ParseHeaders(block, "H_START", <<>>)

\* The block of connection c has been parsed in two reads.
TwoReads(c) == sock[c].segs = 2 /\ sock[c].script = <<>>

\* C24: a header block fed in two reads, the parser having asked for more
\* after the first, ends as it does when fed in one read: an error in both
\* cases, or success with the same header map.
C24_SplitIndependent ==
  \A c \in TrafficConns :
    TwoReads(c) =>
      /\ http[c].error <=> OneRead(sock[c].sent).res = "error"
      /\ http[c].state = "STATE_ANALYSIS" <=> OneRead(sock[c].sent).res = "success"
      /\ ~http[c].error => http[c].headers = OneRead(sock[c].sent).headers

\* The block of connection c has been parsed in one read.
WholeRead(c) == sock[c].segs = 1 /\ sock[c].script = <<>>

\* C25: a header block with a line whose key is empty (the line starts with
\* the colon) or whose value is empty (carriage return right after colon and
\* space), parsed in one read, is a parse error, and no header with an empty
\* key, a key starting with the colon, an empty value or a value starting
\* with the carriage return is in the map.
C25_EmptyKeyOrValue ==
  \A c \in TrafficConns :
    (WholeRead(c) /\ sock[c].sent \in EmptyKeyBlocks \cup EmptyValueBlocks)
      => /\ http[c].error
         /\ \A key \in DOMAIN http[c].headers :
              /\ key # <<>> /\ Head(key) # ":"
              /\ http[c].headers[key] # <<>>
              /\ Head(http[c].headers[key]) # CR

\* ------------------------------------------------- the request-line parser
\* The request line a connection was sent, and the method tokens in it.
SentLine(c) == SubSeq(sock[c].sent, 1, Find(sock[c].sent, <<CR>>, 0))
TokenText == [GET |-> S_GET, POST |-> S_POST, HEAD |-> S_HEAD]
TokensIn(line) == {m \in DOMAIN TokenText : Find(line, TokenText[m], 0) >= 0}

\* The token of the line that occurs at the smallest position.
FirstToken(line) ==
  CHOOSE m \in TokensIn(line) :
    \A n \in TokensIn(line) :
      Find(line, TokenText[m], 0) <= Find(line, TokenText[n], 0)

\* C26: once parseURI has run on a request line that holds more than one of
\* GET, POST and HEAD, method_ is the token at the smallest position.
C26_FirstTokenWins ==
  \A c \in TrafficConns :
    (sock[c].segs >= 1 /\ Cardinality(TokensIn(SentLine(c))) > 1)
      => http[c].method = FirstToken(SentLine(c))

\* ------------------------------------------------------ the post-event hook
\* This step is a dispatch of connection c in which handleConn was called.
ConnHookStep(c) ==
  /\ http[c].made
  /\ pc[http[c].loop] = "dispatch"
  /\ ret[http[c].loop] # <<>>
  /\ Head(ret[http[c].loop]) = c
  /\ ret'[http[c].loop] = Tail(ret[http[c].loop])
  /\ callLog'[c] # <<>>
  /\ callLog'[c][Len(callLog'[c])] = "conn"

\* The node a connection's timer_ points to.
TimerOf(q, h) == CHOOSE n \in q : n.id = h.timer

\* The state after a handleConn call that left connection c without error
\* and H_CONNECTED; left is the interest the handlers had left in events_.
Rearmed(c, left) ==
  LET L == http[c].loop
      fd == sock[c].fd
      mask == chEvents'[c]
  IN /\ kreg'[L][fd].reg /\ ~kreg'[L][fd].off
     /\ kreg'[L][fd].ev = mask
     /\ chLast'[c] = mask
     /\ EPOLLET \in mask
     /\ mask \ {EPOLLET} # {}
     /\ ~({EPOLLIN, EPOLLOUT} \subseteq mask)
     /\ {EPOLLIN, EPOLLOUT} \subseteq left => mask = {EPOLLOUT, EPOLLET}
     /\ timerSeq' = timerSeq + 1
     /\ http'[c].timer = timerSeq'
     /\ \E n \in timerQ'[L] : n.id = http'[c].timer
     /\ ~TimerOf(timerQ'[L], http'[c]).deleted
     /\ TimerOf(timerQ'[L], http'[c]).conn = c
     /\ TimerOf(timerQ'[L], http'[c]).exp - now =
          IF http'[c].keepAlive THEN DEFAULT_KEEP_ALIVE_TIME
          ELSE IF left # {} THEN DEFAULT_EXPIRED_TIME
          ELSE DEFAULT_KEEP_ALIVE_TIME \div 2

\* C27: a handleConn call that leaves its connection without error and
\* H_CONNECTED leaves the Channel registered and enabled with a non-empty
\* edge-triggered mask that does not hold both read and write (both are
\* narrowed to write), and a new live timer node on the connection whose
\* timeout is 5 minutes with keep-alive, else 2 seconds if the handlers had
\* left an interest, else half of 5 minutes.
C27_Rearm ==
  [][\A c \in TrafficConns :
       (ConnHookStep(c) /\ ~http'[c].error /\ http'[c].cstate = "H_CONNECTED")
         => Rearmed(c, AfterHandlers(c, chRevents[c]).ev)]_vars

\* A connection without keep-alive whose read handler answered one request
\* with the send buffer full and began a second one, so that both read and
\* write interest were left, has been re-armed for writing only, with the
\* short timeout.
C27_Witness ==
  \E c \in TrafficConns :
    /\ http[c].made /\ ~http[c].error /\ http[c].cstate = "H_CONNECTED"
    /\ ~http[c].keepAlive
    /\ callLog[c] = <<"read", "conn">>
    /\ http[c].state = "STATE_PARSE_HEADERS"
    /\ http[c].outBuffer # <<>>
    /\ chEvents[c] = {EPOLLOUT, EPOLLET}
    /\ \E n \in timerQ[http[c].loop] :
         /\ n.id = http[c].timer /\ n.conn = c
         /\ n.exp = now + DEFAULT_EXPIRED_TIME

\* ------------------------------------------------------------ epoll_mod
\* This step is a dispatch of connection c whose handleConn called
\* updatePoller: the desired mask is events_ after the step, the
\* last-registered mask is lastEvents_ before it.
ModStep(c) ==
  /\ ConnHookStep(c)
  /\ ~http'[c].error
  /\ http'[c].cstate = "H_CONNECTED"

\* This step is a dispatch of a loop's wakeup channel or of the listening
\* channel: both call updatePoller without a timeout.
PlainModStep(r, ch) ==
  /\ pc[r] = "dispatch"
  /\ ret[r] # <<>>
  /\ Head(ret[r]) = ch
  /\ ret'[r] = Tail(ret[r])
  /\ ch \in {WakeCh(r), ListenCh}
  /\ EPOLLIN \in chRevents[ch]

\* The Multiplexer's tables and the kernel's registrations are as before.
PollerUnchanged ==
  /\ kreg' = kreg
  /\ krdy' = krdy
  /\ fd2chan' = fd2chan
  /\ fd2http' = fd2http

\* The timer queue of connection c's loop holds what handleConn's
\* seperateTimer left, and nothing new.
NoTimerAdded(c) ==
  timerQ'[http[c].loop] = ClearReq(timerQ[http[c].loop], http[c].timer)

\* One EPOLL_CTL_MOD on the descriptor of connection c and no other
\* change of the registrations; lastEvents_ is the desired mask.
OneKernelUpdate(c) ==
  /\ kreg' = [kreg EXCEPT ![http[c].loop][sock[c].fd] = Registered(chEvents'[c])]
  /\ kreg' # kreg
  /\ chLast'[c] = chEvents'[c]
  /\ fd2chan' = fd2chan
  /\ fd2http' = fd2http

\* C28: epoll_mod on a Channel whose desired mask equals its
\* last-registered mask issues no kernel update and changes no Multiplexer
\* or timer state; otherwise it issues exactly one kernel update, after
\* which the last-registered mask equals the desired mask.
C28_ModNoOp ==
  [][\A c \in TrafficConns :
       ModStep(c) =>
         IF chEvents'[c] = chLast[c]
           THEN PollerUnchanged /\ chLast' = chLast /\ NoTimerAdded(c)
           ELSE OneKernelUpdate(c)]_vars

\* epoll_mod with equal masks issues no kernel update and leaves the
\* registrations and the Multiplexer's tables alone, but a call with a
\* timeout (every call of a connection) still puts a new live timer node
\* on the connection; a call without a timeout (wakeup and listening
\* channels) changes no timer state. With different masks it issues one
\* kernel update and lastEvents_ becomes the desired mask.
C28_ModKernelNoOp ==
  [][/\ \A c \in TrafficConns :
          ModStep(c) =>
            /\ IF chEvents'[c] = chLast[c]
                 THEN PollerUnchanged /\ chLast' = chLast
                 ELSE OneKernelUpdate(c)
            /\ ~NoTimerAdded(c)
            /\ timerQ'[http[c].loop] =
                 ClearReq(timerQ[http[c].loop], http[c].timer) \cup
                   {TimerOf(timerQ'[http[c].loop], http'[c])}
            /\ TimerOf(timerQ'[http[c].loop], http'[c]).conn = c
            /\ ~TimerOf(timerQ'[http[c].loop], http'[c]).deleted
     /\ \A r \in Reactors : \A ch \in {WakeCh(r), ListenCh} :
          (PlainModStep(r, ch) /\ chEvents'[ch] = chLast[ch]) =>
            PollerUnchanged /\ chLast' = chLast /\ timerQ' = timerQ]_vars

\* A connection has been dispatched a second time with the mask it was
\* registered with: the kernel registration is the one epoll_add made, and
\* the connection is on its second timer.
C28_Witness ==
  \E c \in TrafficConns :
    /\ http[c].made /\ ~http[c].error /\ http[c].cstate = "H_CONNECTED"
    /\ callLog[c] = <<"read", "conn">>
    /\ chEvents[c] = {EPOLLIN, EPOLLET}
    /\ chLast[c] = {EPOLLIN, EPOLLET}
    /\ kreg[http[c].loop][sock[c].fd] = Registered({EPOLLIN, EPOLLET})
    /\ \E n \in timerQ[http[c].loop] :
         n.id = http[c].timer /\ n.conn = c /\ ~n.deleted
    /\ \E n \in timerQ[http[c].loop] : n.deleted /\ n.conn = NoConn

\* ------------------------------------------------------ handleExpiredEvent
\* This step popped nodes from the timer queue of loop r and did nothing
\* else to it: a handleExpiredEvent call that found something to pop.
ReapStep(r) ==
  /\ timerQ'[r] # timerQ[r]
  /\ timerQ'[r] \subseteq timerQ[r]

\* Node n is live and its expiry lies ahead of the reduced clock.
LiveUnexpired(n) == ~n.deleted /\ now < n.exp

\* C29: handleExpiredEvent pops the minimum node while it is deleted or its
\* expiry has passed and stops at the first live, unexpired node: after it
\* the queue is empty or its minimum node is neither deleted nor expired,
\* no live unexpired node has been popped, and every popped node was ahead
\* of every node left in the queue.
C29_ReapStops ==
  [][\A r \in Reactors :
       ReapStep(r) =>
         /\ timerQ'[r] = {} \/ LiveUnexpired(Top(timerQ'[r]))
         /\ \A n \in timerQ[r] \ timerQ'[r] : ~LiveUnexpired(n)
         /\ \A n \in timerQ[r] \ timerQ'[r] : \A m \in timerQ'[r] :
              n.exp < m.exp \/ (n.exp = m.exp /\ n.id < m.id)]_vars

\* A reap has popped an expired node and stopped at a live unexpired one
\* that has a deleted node behind it.
C29_Witness ==
  /\ popLog[LoopUnderTest] # <<>>
  /\ timerQ[LoopUnderTest] # {}
  /\ LiveUnexpired(Top(timerQ[LoopUnderTest]))
  /\ \E n \in timerQ[LoopUnderTest] : n.deleted

\* ------------------------------------------------------- detached timers
\* Node n of loop r is the one the timer_ of some connection points to.
CurrentTimer(n) == \E c \in Conns : http[c].made /\ http[c].timer = n.id

\* Connection c, its socket and its entries in the poller of loop r are
\* after this step what they were before it.
Untouched(c, r) ==
  /\ http'[c] = http[c]
  /\ sock'[c] = sock[c]
  /\ kreg'[r][sock[c].fd] = kreg[r][sock[c].fd]
  /\ fd2chan'[r][sock[c].fd] = fd2chan[r][sock[c].fd]
  /\ fd2http'[r][sock[c].fd] = fd2http[r][sock[c].fd]

\* C30: a node a connection has detached (handleConn's seperateTimer, or
\* reset) has its deleted flag set and holds no connection; the only node
\* that holds a connection is the one its timer_ points to; and a
\* handleExpiredEvent that pops only other nodes than a connection's
\* current timer neither closes nor unregisters that connection, also when
\* the connection has been re-armed with a new timer.
C30_DetachedInert ==
  [][/\ \A r \in Reactors : \A n \in timerQ'[r] :
          /\ n.deleted <=> n.conn = NoConn
          /\ ~CurrentTimer(n)' => n.deleted
          /\ n.conn # NoConn => http'[n.conn].timer = n.id
     /\ \A c \in TrafficConns : \A r \in Reactors :
          ( /\ ReapStep(r)
            /\ http[c].made /\ http[c].loop = r /\ sock[c].st = "open"
            /\ \A n \in timerQ[r] \ timerQ'[r] : n.id # http[c].timer )
            => Untouched(c, r)]_vars

\* A connection that handleConn re-armed is connected and registered, its
\* second timer is live in the queue, and the node it had detached has been
\* popped: no deleted node is left in its loop's queue.
C30_Witness ==
  \E c \in TrafficConns :
    /\ http[c].made /\ ~http[c].error /\ http[c].cstate = "H_CONNECTED"
    /\ sock[c].st = "open"
    /\ callLog[c] # <<>> /\ callLog[c][Len(callLog[c])] = "conn"
    /\ pc[http[c].loop] = "poll"
    /\ kreg[http[c].loop][sock[c].fd].reg
    /\ fd2http[http[c].loop][sock[c].fd] = c
    /\ \E n \in timerQ[http[c].loop] :
         n.id = http[c].timer /\ n.conn = c /\ ~n.deleted
    /\ \A n \in timerQ[http[c].loop] : ~n.deleted

\* --------------------------------------------------- popping a live node
\* This step is a handleExpiredEvent of loop r that popped the live node
\* guarding connection c.
ExpiredStep(r, c) ==
  /\ ReapStep(r)
  /\ \E n \in timerQ[r] \ timerQ'[r] : ~n.deleted /\ n.conn = c

\* handleClose has run on connection c of loop r: it is H_DISCONNECTED and
\* epoll_del has removed its registration and both registry entries.
ClosedInLoop(r, c) ==
  /\ http'[c].cstate = "H_DISCONNECTED"
  /\ kreg'[r][sock[c].fd] = Unregistered
  /\ fd2chan'[r][sock[c].fd] = NoChan
  /\ fd2http'[r][sock[c].fd] = NoConn
  /\ sock[c].fd \notin {krdy'[r][i] : i \in 1..Len(krdy'[r])}

\* C31: when handleExpiredEvent pops a live, expired node, the connection
\* it guards becomes H_DISCONNECTED, is removed from the Multiplexer's
\* registries, and its descriptor is closed, all within that call.
C31_ExpiredClosed ==
  [][\A r \in Reactors : \A c \in Conns :
       ExpiredStep(r, c) =>
         /\ \A n \in timerQ[r] \ timerQ'[r] : n.conn = c => ~IsValid(n, now)
         /\ ClosedInLoop(r, c)
         /\ sock'[c].st = "closed"]_vars

\* The same, with the descriptor closed within the call exactly when the
\* popped node held the last reference: while the acceptor still holds
\* req_info for the connection the descriptor stays open, and is closed
\* when the acceptor lets go of it.
C31_ExpiredClosedLastRef ==
  [][/\ \A r \in Reactors : \A c \in Conns :
          ExpiredStep(r, c) =>
            /\ \A n \in timerQ[r] \ timerQ'[r] : n.conn = c => ~IsValid(n, now)
            /\ ClosedInLoop(r, c)
            /\ sock[c].st = "open"
            /\ sock'[c].st = IF held = c THEN "open" ELSE "closed"
            /\ http'[c].live <=> held = c
     /\ \A c \in Conns :
          ( /\ held = c /\ held' # c
            /\ http[c].cstate = "H_DISCONNECTED" /\ sock[c].st = "open" )
            => sock'[c].st = "closed"]_vars

\* An expired timer has closed a connection that nothing else referred to:
\* it is H_DISCONNECTED, destroyed, its descriptor closed and its registry
\* entries gone, and the node was popped as an expiry.
C31_Witness ==
  \E c \in Conns :
    /\ http[c].made /\ ~http[c].live
    /\ http[c].cstate = "H_DISCONNECTED"
    /\ sock[c].st = "closed"
    /\ callLog[c] = <<>>
    /\ popLog[http[c].loop] # <<>>
    /\ held # c
    /\ fd2http[http[c].loop][sock[c].fd] # c

\* ------------------------------------------------------ the reduced clock
\* The milliseconds that have passed since node n was pushed.  The clock
\* advances by less than one cycle between a push and any later state, so
\* a clock below the push time has wrapped once since.
Elapsed(n) ==
  IF now >= n.pushed THEN now - n.pushed ELSE now + ClockCycle - n.pushed

\* C32: the reduced clock gives the expiry decisions of an unreduced
\* millisecond clock: a live node is found expired by isValid whenever at
\* least its timeout has passed since it was pushed, also when it was
\* pushed within one timeout before the wrap of the reduced clock or the
\* wrap lies between push and reap.
C32_SameDecisions ==
  \A r \in Reactors : \A n \in timerQ[r] :
    (~n.deleted /\ Elapsed(n) >= n.exp - n.pushed) => ~IsValid(n, now)

\* ------------------------------------------------- the acceptor's dispatch
\* This step ends a dispatch of a readable notification on the listening
\* descriptor.
AcceptDispatchEnd ==
  /\ pc[BaseLoop] = "dispatch"
  /\ ret[BaseLoop] # <<>>
  /\ Head(ret[BaseLoop]) = ListenCh
  /\ EPOLLIN \in chRevents[ListenCh]
  /\ ret'[BaseLoop] = Tail(ret[BaseLoop])

\* C33: after every dispatch of a readable notification on the listening
\* descriptor, whatever happened to the accepted descriptors (admitted,
\* rejected at the ceiling, not made non-blocking), the accept queue has
\* been drained and the acceptor's edge-triggered read interest is
\* registered with the main loop's poller.
C33_AcceptorRearmed ==
  [][AcceptDispatchEnd =>
       /\ acceptQ' = <<>>
       /\ chEvents'[ListenCh] = {EPOLLIN, EPOLLET}
       /\ kreg'[BaseLoop][ListenFd] = Registered({EPOLLIN, EPOLLET})]_vars

\* ------------------------------------------------------ admission control
\* Connection c has a newEvent task waiting in some loop's queue.
TaskQueued(c) ==
  \E r \in Reactors :
    \/ \E i \in 1..Len(pendingFunctors[r]) : pendingFunctors[r][i] = NewEventTask(c)
    \/ \E i \in 1..Len(functors[r]) : functors[r][i] = NewEventTask(c)

\* C34: an accepted descriptor at or above the ceiling MAXFDS is closed at
\* once and never gets an HttpData, a newEvent task or a registry entry;
\* every descriptor of an HttpData, and every descriptor registered with a
\* poller or present in fd2chan_ or fd2http_, is below the ceiling.
C34_Admission ==
  /\ \A c \in Conns :
       /\ sock[c].fd >= MAXFDS =>
            /\ sock[c].st = "closed"
            /\ ~http[c].made
            /\ ~TaskQueued(c)
            /\ held # c
            /\ \A r \in Reactors : \A fd \in Fds :
                 fd2http[r][fd] # c /\ fd2chan[r][fd] # c
       /\ http[c].made => sock[c].fd < MAXFDS
  /\ \A r \in Reactors : \A fd \in Fds :
       (kreg[r][fd].reg \/ fd2chan[r][fd] # NoChan \/ fd2http[r][fd] # NoConn)
         => fd < MAXFDS

\* A descriptor at the ceiling was accepted and turned away, and the
\* connection accepted after it was admitted and is registered.
C34_Witness ==
  \E c, d \in Conns :
    /\ c < d
    /\ sock[c].fd = MAXFDS /\ sock[c].st = "closed" /\ ~http[c].made
    /\ http[d].made /\ sock[d].st = "open"
    /\ fd2http[http[d].loop][sock[d].fd] = d
    /\ kreg[http[d].loop][sock[d].fd].reg

\* ---------------------------------------------------------- write failure
\* The context in which Channel::handleEvents calls the write handler of
\* connection c for the events returned to it.
BeforeWrite(c) ==
  ReadFirst([h |-> http[c], s |-> sock[c], ev |-> {}, calls |-> <<>>],
            chRevents[c])

\* This step is a dispatch of connection c whose write handler called writen
\* and writen failed.
WriteFailedStep(c) ==
  /\ ConnHookStep(c)
  /\ EPOLLOUT \in chRevents[c]
  /\ ~BeforeWrite(c).h.threw
  /\ ~BeforeWrite(c).h.error
  /\ BeforeWrite(c).h.cstate # "H_DISCONNECTED"
  /\ WriteFails(BeforeWrite(c))

\* C35: on a write failure the write handler leaves events_ empty and sets
\* error_, and handleConn closes the connection in the same dispatch; no
\* write interest is requested after the failure.
C35_WriteFailure ==
  [][\A c \in TrafficConns :
       WriteFailedStep(c) =>
         /\ HandleWrite(BeforeWrite(c)).ev = {}
         /\ EPOLLOUT \notin chEvents'[c]
         /\ http'[c].error
         /\ http'[c].cstate = "H_DISCONNECTED"]_vars

\* ------------------------------------------------- one timer a connection
\* Connection c is registered with the poller of its loop.
RegisteredConn(c) ==
  /\ http[c].made
  /\ sock[c].st = "open"
  /\ kreg[http[c].loop][sock[c].fd].reg
  /\ fd2http[http[c].loop][sock[c].fd] = c

\* The live nodes in the timer queue of c's loop that guard c.
LiveTimers(c) == {n \in timerQ[http[c].loop] : ~n.deleted /\ n.conn = c}

\* C36: at the end of every loop iteration of a Reactor (it is about to
\* poll), every connection registered with its poller and not
\* H_DISCONNECTED is guarded by exactly one non-deleted timer node.
C36_OneLiveTimer ==
  \A c \in Conns :
    (RegisteredConn(c) /\ pc[http[c].loop] = "poll"
       /\ http[c].cstate # "H_DISCONNECTED")
      => Cardinality(LiveTimers(c)) = 1

\* ------------------------------------------------------- stopping a loop
\* C37: a quit issued by another thread at any time after the worker's
\* loop pointer was published, also before the worker has entered loop(),
\* makes loop() return eventually, so that the join terminates.
C37_QuitStops ==
  (pc[BaseLoop] = "joining") ~> (pc[LoopUnderTest] \in {"exited", "finished"})

\* ------------------------------------------------------- response order
\* seq is a whole number of responses to GET /hello, one after the other.
HelloResponses(seq) ==
  /\ Len(seq) % Len(HelloResponse) = 0
  /\ \A i \in 1..Len(seq) :
       seq[i] = HelloResponse[((i - 1) % Len(HelloResponse)) + 1]

\* What connection c has put on the wire followed by what is pending in
\* its outBuffer_.
Outbound(c) == sock[c].wire \o http[c].outBuffer

\* C38: the bytes a connection puts on the wire are its responses in
\* request order with no loss or interleaving: while bytes of an earlier
\* response are pending in outBuffer_, processing a later pipelined request
\* does not overwrite them.  For a connection that was sent GET /hello
\* requests and met no error, what is on the wire followed by what is
\* pending is a whole number of hello responses.
C38_InOrder ==
  \A c \in TrafficConns :
    (http[c].made /\ ~http[c].error) => HelloResponses(Outbound(c))

\* ------------------------------------------------- the connection phase
\* The order of the phases of a connection.
PhaseRank(st) ==
  IF st = "H_CONNECTED" THEN 0 ELSE IF st = "H_DISCONNECTING" THEN 1 ELSE 2

\* Connection c is known to some poller: a registry entry of a loop names
\* it, or the kernel holds a registration for its descriptor on its loop.
KnownToPoller(c) ==
  \/ \E r \in Reactors : \E fd \in Fds : fd2http[r][fd] = c
  \/ \E r \in Reactors : \E fd \in Fds : fd2chan[r][fd] = c
  \/ sock[c].st = "open" /\ kreg[http[c].loop][sock[c].fd].reg

\* This step called no handler of c and moved no byte over its descriptor:
\* nothing was read into inBuffer_, nothing left outBuffer_ or reached the
\* wire.
DescriptorUntouched(c) ==
  /\ callLog'[c] = callLog[c]
  /\ http'[c].inBuffer = http[c].inBuffer
  /\ http'[c].outBuffer = http[c].outBuffer
  /\ sock'[c].wire = sock[c].wire

\* C39: the connection phase only moves forward, H_CONNECTED ->
\* H_DISCONNECTING -> H_DISCONNECTED or H_CONNECTED -> H_DISCONNECTED; once
\* H_DISCONNECTED the connection is in no poller's registry and has no
\* kernel registration, no step registers it again or pushes a timer node
\* for it, and no handler of it reads or writes its descriptor.
C39_PhaseMonotone ==
  [][\A c \in Conns :
       /\ http[c].made => PhaseRank(http'[c].cstate) >= PhaseRank(http[c].cstate)
       /\ (http[c].made /\ http[c].cstate = "H_DISCONNECTED") =>
            /\ ~KnownToPoller(c) /\ ~KnownToPoller(c)'
            /\ \A r \in Reactors : \A n \in timerQ'[r] :
                 n.conn = c => n \in timerQ[r]
            /\ \A r \in Reactors : \A n \in timerQ[r] : ~(n.conn = c /\ ~n.deleted)
            /\ http'[c].timer = http[c].timer
            /\ DescriptorUntouched(c)]_vars

\* A connection whose peer closed its sending side got response bytes, was
\* closed by the handleConn of a dispatch, and is now H_DISCONNECTED, its
\* descriptor closed and unknown to every poller.
C39_Witness ==
  \E c \in Conns :
    /\ http[c].made /\ http[c].cstate = "H_DISCONNECTED"
    /\ sock[c].fin
    /\ sock[c].wire # <<>>
    /\ "conn" \in {callLog[c][i] : i \in 1..Len(callLog[c])}
    /\ ~KnownToPoller(c)
    /\ sock[c].st = "closed"

\* ------------------------------- the read handler, one invocation at a time
\* HttpData::handleRead from its entry to the end of its do-while.
ReadBody(k) ==
  Then(AnalysisStage,
    Then(BodyStage,
      Then(HeaderStage,
        Then(UriStage,
          Then(ReadStage, k)))))

\* The handleWrite that handleRead calls when the do-while left output.
Flushed(d) == IF d.h.outBuffer # <<>> THEN HandleWrite(d) ELSE d

\* handleRead calls itself: no error, STATE_FINISH, and after reset() the
\* inbound buffer is not empty and the peer has not closed.
ReEnters(d, w) ==
  /\ ~d.h.error /\ ~d.h.threw
  /\ ~w.h.error /\ w.h.state = "STATE_FINISH"
  /\ w.h.inBuffer # <<>> /\ w.h.cstate # "H_DISCONNECTING"

\* One invocation of handleRead up to its return or up to its call of
\* itself (again), d being the context its do-while left.
ReadFrom(d) ==
  Then(LAMBDA w : IF ReEnters(d, w)
                    THEN [k |-> [w EXCEPT !.h = Reset(@)], again |-> TRUE]
                    ELSE [k |-> AfterStages(d, w), again |-> FALSE],
       Flushed(d))
ReadOnce(k) == Then(LAMBDA x : ReadFrom(x.k), ReadBody(k))

\* Channel::handleEvents has called the read handler of connection c, or the
\* handler is about to call itself: one invocation runs.  callLog gets one
\* "read" for each invocation, events_ is the channel's.
ReadEntry(c) ==
  /\ pc[LoopUnderTest] \in {"dispatch", "handleRead"}
  /\ ret[LoopUnderTest] # <<>> /\ Head(ret[LoopUnderTest]) = c
  /\ pc[LoopUnderTest] = "dispatch" =>
       /\ callLog[c] = <<>>
       /\ ~NoHandler(chRevents[c])
       /\ chRevents[c] \cap {EPOLLIN, EPOLLPRI, EPOLLRDHUP} # {}
  /\ \E x \in {ReadOnce([h |-> http[c], s |-> sock[c], ev |-> chEvents[c],
                         calls |-> Append(callLog[c], "read")])} :
       /\ http' = [http EXCEPT ![c] = x.k.h]
       /\ sock' = [sock EXCEPT ![c] = x.k.s]
       /\ chEvents' = [chEvents EXCEPT ![c] = x.k.ev]
       /\ callLog' = [callLog EXCEPT ![c] = x.k.calls]
       /\ timerQ' = [timerQ EXCEPT ![LoopUnderTest] =
            IF x.k.h.timer = 0 THEN ClearReq(@, http[c].timer) ELSE @]
       /\ pc' = IF x.k.h.threw THEN [t \in Reactors |-> "aborted"]
                ELSE [pc EXCEPT ![LoopUnderTest] =
                        IF x.again THEN "handleRead" ELSE "afterRead"]
  /\ UNCHANGED <<iter, ret, pendingFunctors, functors, callingPendingFunctors,
                 quit, efdCount, kreg, krdy, fd2chan, chLast, chRevents,
                 midQueue, userVars, appendLog, runLog, popLog, fd2http,
                 timerSeq, acceptVars, timeVars, touchLog>>

\* What the peer sends next when its last segment ended inside a request:
\* the rest of that request, alone or followed by the start of one more.
HelloRest == SubSeq(HelloOnce, Len(HelloBegun) + 1, Len(HelloOnce))
Continuations == {HelloRest, HelloRest \o <<LF>> \o HelloBegun}
EndsWith(s, t) ==
  Len(s) >= Len(t) /\ SubSeq(s, Len(s) - Len(t) + 1, Len(s)) = t

\* A segment of the peer arrives while the handler is between its reset()
\* and the readn of the invocation it is about to start.
ArriveDuring(c) ==
  /\ pc[LoopUnderTest] = "handleRead"
  /\ envCount < MaxEnvEvents
  /\ sock[c].st = "open" /\ ~sock[c].fin /\ ~sock[c].rst
  /\ EndsWith(sock[c].sent, HelloBegun)
  /\ \E data \in Continuations :
       sock' = [sock EXCEPT ![c].rcv = @ \o data, ![c].sent = @ \o data,
                            ![c].segs = @ + 1]
  /\ envCount' = envCount + 1
  /\ UNCHANGED <<loopVars, userVars, histVars, http, fd2http, timerQ, timerSeq,
                 acceptVars, now, touchLog>>

NextRead == ReadEntry(1) \/ ArriveDuring(1)

SpecRead == InitChannel /\ [][NextRead]_vars

\* The complete requests in a buffer of GET requests: the header blocks
\* that are closed by an empty line.
CompleteRequests(buf) ==
  Cardinality({i \in 1..(Len(buf) - 3) : SubSeq(buf, i, i + 3) = CRLF \o CRLF})

\* This step is an invocation of handleRead by itself that ends in one more
\* such call.
ReEntryStep(c) ==
  /\ pc[LoopUnderTest] = "handleRead"
  /\ pc'[LoopUnderTest] = "handleRead"
  /\ callLog'[c] # callLog[c]

\* C40: every invocation of the read handler terminates: handleRead calls
\* itself only after a full request was consumed, so the inbound buffer is
\* strictly shorter at each re-entry than at the one before, it holds fewer
\* complete requests, and the depth of the recursion is bounded by the
\* number of complete requests in the buffer.
C40_ReadShrinks ==
  [][\A c \in TrafficConns :
       ReEntryStep(c) =>
         /\ Len(http'[c].inBuffer) < Len(http[c].inBuffer)
         /\ CompleteRequests(http'[c].inBuffer)
              < CompleteRequests(http[c].inBuffer)]_vars
====
